---- MODULE Spec2Model ----
(***************************************************************************)
(* A model of the chunking engine and the multi-source retrieval layer of  *)
(* ad-linter: the law, guideline and Q&A chunkers, the merge pass that     *)
(* folds undersized chunks, the sliding-window split and multiSearch.      *)
(*                                                                         *)
(* Text is modelled by what the code reads of it.  The merge pass only     *)
(* reads content.length and concatenates, so a chunk's content is a record *)
(* [len, parts]: its length in UTF-16 code units and the ordered list of   *)
(* pre-merge chunks whose contents it is made of (joined by "\n\n").  The  *)
(* sliding-window split also reads the positions of the full stops and,    *)
(* through trim(), of the whitespace, so a section body is a record        *)
(* [len, periods, spaces].                                                 *)
(***************************************************************************)
EXTENDS Integers, Sequences, FiniteSets, TLC

VARIABLES
    \* ---- chunkLaw / chunkGuideline and their merge pass
    family,        \* "law" | "guideline" | "none": which chunker this run calls
    law,           \* the LawData argument of chunkLaw
    chunkBy,       \* options.chunkBy
    doc,           \* the PdfDocument argument of chunkGuideline
    opts,          \* chunkGuideline's opts: chunkSize, chunkOverlap
    chunks,        \* the chunks handed to mergeSmallChunks
    idx,           \* position of the for..of loop of mergeSmallChunks
    pendingChunk,  \* <<>> for null, <<c>> for a pending chunk c
    result,        \* mergeSmallChunks' result array / the chunker's return value
    pc             \* "start" | "merge" | "done" | "idle"

VARIABLES
    \* ---- one call of splitWithOverlap, iteration by iteration
    sText,         \* the text argument
    sOpts,         \* chunkSize and chunkOverlap
    sStart,        \* the local `start`
    sChunks,       \* the local `chunks`: the windows pushed so far
    sPc            \* "call" | "loop" | "done" | "idle"

VARIABLES
    \* ---- one call of chunkQa
    qaData,          \* the QaData argument: source and items
    qaOptions,       \* combineRelated and maxChunkSize
    itemsByCategory, \* the Map, as the list of its entries in insertion order
    qCat,            \* position of the loop over the Map's entries
    qItem,           \* position of the loop over one category's items
    currentContent,  \* [len, parts]: its length and the ids of the items in it
    currentItems,
    chunkIndex,
    qChunks,         \* the local `chunks` / the return value
    qPc              \* "start" | "category" | "item" | "done" | "idle"

VARIABLES
    \* ---- one call of multiSearch against a table
    table,           \* the rows of the table, each with its distance to the query
    msSources,       \* options.sources
    msLimit,         \* options.limitPerSource
    searches,        \* per source: "pending" | "fulfilled" | "rejected"
    searchResults,   \* per source: what its search resolved to
    completion,      \* the positions of the searches in the order they settled
    msState,         \* "start" | "awaiting" | "returned" | "thrown" | "idle"
    msOutput         \* the list multiSearch returns

VARIABLES
    \* ---- the document store: calls awaited one after another
    dbInstance,      \* FALSE for null, TRUE once connected
    documents,       \* the persisted table: [exists, rows]
    stCall,          \* the call in progress or just completed, with its arguments
    stPc,            \* the await the call is suspended at; "settled": the call has
                     \* ended; "ready": no call in progress
    stIo,            \* the I/O operations the call has performed, in order
    stOutcome        \* what the call came to

VARIABLES
    \* ---- one run of the ingestion script's main
    ingPc,           \* "clearTable" | "family" | "count" | "done" | "aborted" | "idle"
    ingFamily,       \* which of the three try blocks main is in: 1, 2, 3
    ingStep,         \* "fetch" | "cache" | "chunk" | "store" inside the try block
    ingChunks,       \* the number of chunks of the current family
    ingEntered,      \* the families whose try block was entered
    ingFailed,       \* the families whose catch block ran
    ingSkipped,      \* the families that had no document to store
    ingStored,       \* the families whose addDocuments returned
    totalChunks,
    ingRows,         \* the number of rows the table holds
    count            \* what the final countDocuments returned, -1 before

VARIABLES
    \* ---- store calls in flight at the same time
    cDbInstance,     \* dbInstance: 0 for null, k for the k-th connection
    connects,        \* how many times lancedb.connect was invoked
    cDocuments,      \* the persisted table: [exists, rows]
    cBefore,         \* the persisted table before the calls started
    cCalls           \* per call: its operation, its chunks, the await it is at,
                     \* the connection it got and what tableNames told it

chunkVars == <<family, law, chunkBy, doc, opts, chunks, idx, pendingChunk, result, pc>>
splitVars == <<sText, sOpts, sStart, sChunks, sPc>>

qaVars == <<qaData, qaOptions, itemsByCategory, qCat, qItem, currentContent,
            currentItems, chunkIndex, qChunks, qPc>>
searchVars == <<table, msSources, msLimit, searches, searchResults, completion,
                msState, msOutput>>

storeVars == <<dbInstance, documents, stCall, stPc, stIo, stOutcome>>

ingestVars == <<ingPc, ingFamily, ingStep, ingChunks, ingEntered, ingFailed, ingSkipped,
                ingStored, totalChunks, ingRows, count>>

concVars == <<cDbInstance, connects, cDocuments, cBefore, cCalls>>

vars == <<chunkVars, splitVars, qaVars, searchVars, storeVars, ingestVars, concVars>>

\* ------------------------------------------------------------------ helpers

Max(a, b) == IF a >= b THEN a ELSE b
Min(a, b) == IF a <= b THEN a ELSE b

RECURSIVE SumSeq(_)
SumSeq(s) == IF s = <<>> THEN 0 ELSE Head(s) + SumSeq(Tail(s))

\* length of lines.join("\n")
JoinLen(lens) == IF lens = <<>> THEN 0 ELSE SumSeq(lens) + (Len(lens) - 1)

RECURSIVE FlatParts(_)
FlatParts(cs) == IF cs = <<>> THEN <<>> ELSE Head(cs).content.parts \o FlatParts(Tail(cs))

ConcatContentDropPending(a, b) == [len |-> a.len + 2 + b.len, parts |-> b.parts]
\* `${a}\n\n${b}`
ConcatContent(a, b) == [len |-> a.len + 2 + b.len, parts |-> a.parts \o b.parts]

\* ------------------------------------------------------------------ law

MIN_CHUNK_SIZE == 100
MAX_CHUNK_SIZE == 2000

MaxArticles == 3

LawId == "L"

Para(n, l, its) == [paragraphNumber |-> n, content |-> l, items |-> its]

\* The article bodies the inputs are drawn from: free text only (lengths
\* around both thresholds, 0 = the empty string), paragraphs only, or both.
ParagraphLists ==
    { <<Para(1, 50, <<[itemNumber |-> "1", content |-> 10]>>)>>,
      <<Para(1, 50, <<>>), Para(2, 50, <<>>), Para(3, 50, <<>>), Para(4, 50, <<>>)>> }

ArticleBodies ==
    [articleTitle : {""}, content : {0, 76, 146, 1914, 2100}, paragraphs : {<<>>}]
    \cup [articleTitle : {"T"}, content : {76}, paragraphs : {<<>>}]
    \cup [articleTitle : {""}, content : {0}, paragraphs : ParagraphLists]
    \cup {[articleTitle |-> "", content |-> 76, paragraphs |-> <<Para(1, 50, <<>>)>>]}

\* article i of the law carries the i-th article number: numbers are distinct
Article(i, b) ==
    [articleNumber |-> <<"5", "6", "12", "7">>[i], articleTitle |-> b.articleTitle,
     content |-> b.content, paragraphs |-> b.paragraphs]

LawInputs ==
    UNION { { [lawId |-> LawId, articles |-> [i \in 1..n |-> Article(i, bs[i])]] :
              bs \in [1..n -> ArticleBodies] } : n \in 0..MaxArticles }

\* `第N条` or `第N条（T）`
ArticleTitleLen(article) ==
    2 + Len(article.articleNumber)
      + (IF article.articleTitle # "" THEN 2 + Len(article.articleTitle) ELSE 0)

\* `${prefix}${paragraph.content}`, prefix "" for paragraph 1, else `${n}　`
ParagraphLineLen(p) ==
    (IF p.paragraphNumber = 1 THEN 0 ELSE Len(ToString(p.paragraphNumber)) + 1) + p.content

\* `　${item.itemNumber}　${item.content}`
ItemLineLen(it) == 2 + Len(it.itemNumber) + it.content

ParagraphLines(p) ==
    <<ParagraphLineLen(p)>> \o [k \in 1..Len(p.items) |-> ItemLineLen(p.items[k])]

RECURSIVE AllParagraphLines(_)
AllParagraphLines(ps) ==
    IF ps = <<>> THEN <<>> ELSE ParagraphLines(Head(ps)) \o AllParagraphLines(Tail(ps))

LawChunk(id, len, lawId, article, paragraphNumber, chunkType) ==
    [id |-> id,
     content |-> [len |-> len, parts |-> <<>>],
     metadata |-> [source |-> "law", lawId |-> lawId,
                   articleNumber |-> article.articleNumber,
                   articleTitle |-> article.articleTitle,
                   paragraphNumber |-> paragraphNumber,
                   chunkType |-> chunkType]]

\* content parts: the k-th chunk handed to the merge pass is part k
NumberParts(cs) ==
    [k \in 1..Len(cs) |-> [cs[k] EXCEPT !.content.parts = <<k>>]]

ArticleChunk(lawId, article) ==
    LawChunk(lawId \o "-art" \o article.articleNumber,
             JoinLen(<<ArticleTitleLen(article)>>
                     \o (IF article.content # 0 THEN <<article.content>> ELSE <<>>)
                     \o AllParagraphLines(article.paragraphs)),
             lawId, article, 0, "article")

chunkByArticle(l) ==
    [i \in 1..Len(l.articles) |-> ArticleChunk(l.lawId, l.articles[i])]

ParagraphChunk(lawId, article, p) ==
    LawChunk(lawId \o "-art" \o article.articleNumber \o "-para" \o ToString(p.paragraphNumber),
             JoinLen(<<ArticleTitleLen(article)>> \o ParagraphLines(p)),
             lawId, article, p.paragraphNumber, "paragraph")

ParagraphModeChunksNoFallback(lawId, article) ==
    [k \in 1..Len(article.paragraphs) |->
       ParagraphChunk(lawId, article, article.paragraphs[k])]
\* lines 88-139: the chunks of one article in paragraph mode
ParagraphModeChunks(lawId, article) ==
    IF article.paragraphs = <<>> /\ article.content # 0
    THEN << LawChunk(lawId \o "-art" \o article.articleNumber,
                     ArticleTitleLen(article) + 1 + article.content,
                     lawId, article, 0, "article") >>
    ELSE [k \in 1..Len(article.paragraphs) |->
            ParagraphChunk(lawId, article, article.paragraphs[k])]

RECURSIVE ParagraphModeAll(_, _)
ParagraphModeAll(lawId, as) ==
    IF as = <<>> THEN <<>>
    ELSE ParagraphModeChunks(lawId, Head(as)) \o ParagraphModeAll(lawId, Tail(as))

chunkByParagraph(l) == ParagraphModeAll(l.lawId, l.articles)

LawMergedArticleNumberOfNext(p, c) == c.metadata.articleNumber
\* mergeSmallChunks (law): the merged chunk of pendingChunk p and chunk c
LawMergedArticleNumber(p, c) ==
    IF p.metadata.articleNumber = c.metadata.articleNumber
    THEN p.metadata.articleNumber
    ELSE p.metadata.articleNumber \o "-" \o c.metadata.articleNumber

LawMergedChunk(p, c) ==
    [id |-> c.metadata.lawId \o "-art" \o LawMergedArticleNumber(p, c),
     content |-> ConcatContent(p.content, c.content),
     metadata |-> [c.metadata EXCEPT
                     !.articleNumber = LawMergedArticleNumber(p, c),
                     !.articleTitle = IF p.metadata.articleTitle # ""
                                      THEN p.metadata.articleTitle
                                      ELSE c.metadata.articleTitle]]

\* ------------------------------------------------------------------ guideline

GUIDELINE_MIN_CHUNK_SIZE == 100

MaxLines == 3

\* A text is [len, periods, spaces]: its length, the indices holding the full
\* stop and the indices holding whitespace (what trim() removes).
Plain(n) == [len |-> n, periods |-> {}, spaces |-> {}]

Shift(S, k) == { p + k : p \in S }

\* a \o "\n" \o b
JoinTwo(a, b) ==
    [len |-> a.len + 1 + b.len,
     periods |-> a.periods \cup Shift(b.periods, a.len + 1),
     spaces |-> a.spaces \cup {a.len} \cup Shift(b.spaces, a.len + 1)]

\* lines.join("\n") of a non-empty list of texts
RECURSIVE JoinLines(_)
JoinLines(ls) ==
    IF Len(ls) = 1 THEN ls[1]
    ELSE JoinTwo(JoinLines(SubSeq(ls, 1, Len(ls) - 1)), ls[Len(ls)])

\* A line of doc.text: a heading (sectionPattern matches line.trim(), whose
\* length is `title`) or a body line.
BodyLine(t) == [heading |-> FALSE, title |-> 0, text |-> t]

LineKinds ==
    { [heading |-> TRUE, title |-> 3, text |-> Plain(3)],
      BodyLine(Plain(0)),
      BodyLine(Plain(50)),
      BodyLine(Plain(1000)),
      BodyLine(Plain(2400)),
      BodyLine([len |-> 2400, periods |-> {900}, spaces |-> {901}]) }

\* doc.filename as tokens, so that the id's "-chunk<n>" suffix can be matched
GuidelineConfigs ==
    { [filename |-> <<"g.pdf">>, chunkSize |-> 1000, chunkOverlap |-> 200],
      [filename |-> <<"g.pdf">>, chunkSize |-> 150, chunkOverlap |-> 20],
      [filename |-> <<"a", "-chunk", "7">>, chunkSize |-> 1000, chunkOverlap |-> 200] }

GuidelineDocs ==
    UNION { [1..n -> LineKinds] : n \in 1..MaxLines }

\* splitIntoSections: the for loop over the lines, then the final push.
\* cur = [title, content]: title 0 for undefined, content the list of lines.
SectionOfUntitled(cur) == [title |-> 0, content |-> JoinLines(cur.content)]
SectionOf(cur) == [title |-> cur.title, content |-> JoinLines(cur.content)]

RECURSIVE SectionsLoop(_, _, _)
SectionsLoop(lines, cur, sections) ==
    IF lines = <<>>
    THEN IF Len(cur.content) > 0 THEN Append(sections, SectionOf(cur)) ELSE sections
    ELSE LET line == Head(lines) IN
         IF line.heading
         THEN SectionsLoop(Tail(lines), [title |-> line.title, content |-> <<>>],
                           IF Len(cur.content) > 0 THEN Append(sections, SectionOf(cur))
                           ELSE sections)
         ELSE SectionsLoop(Tail(lines),
                           [cur EXCEPT !.content = Append(cur.content, line.text)],
                           sections)

splitIntoSections(lines) == SectionsLoop(lines, [title |-> 0, content |-> <<>>], <<>>)

\* text.lastIndexOf("。", from): the greatest index <= from holding a full stop
LastIndexOfPeriod(text, from) ==
    LET cand == { p \in text.periods : p <= from } IN
    IF cand = {} THEN -1 ELSE CHOOSE p \in cand : \A q \in cand : q <= p

\* the window end computed at lines 95-103 for a window starting at start
WindowEnd(text, start, chunkSize) ==
    LET end == start + chunkSize IN
    IF end < text.len
    THEN LET lastPeriod == LastIndexOfPeriod(text, end) IN
         IF 2 * lastPeriod > 2 * start + chunkSize THEN lastPeriod + 1 ELSE end
    ELSE end

RECURSIVE TrimStart(_, _, _)
TrimStart(text, s, e) ==
    IF s < e /\ s \in text.spaces THEN TrimStart(text, s + 1, e) ELSE s

RECURSIVE TrimEnd(_, _, _)
TrimEnd(text, s, e) ==
    IF s < e /\ (e - 1) \in text.spaces THEN TrimEnd(text, s, e - 1) ELSE e

\* text.slice(start, end).trim() as the range of text it keeps
Window(text, start, end) ==
    LET e == Min(end, text.len)
        ts == TrimStart(text, start, e)
    IN  [start |-> start, end |-> end, tstart |-> ts, tend |-> TrimEnd(text, ts, e)]

WindowLen(w) == w.tend - w.tstart

NextStartSkipping(end, chunkOverlap) == Max(end + 1 - chunkOverlap, 0)
\* `start = end - chunkOverlap; if (start < 0) start = 0;`
NextStart(end, chunkOverlap) == Max(end - chunkOverlap, 0)

\* `return [text]`: the whole text, untrimmed
WholeText(text) == [start |-> 0, end |-> text.len, tstart |-> 0, tend |-> text.len]

\* splitWithOverlap as a function: the windows in order
RECURSIVE SplitLoop(_, _, _, _)
SplitLoop(text, chunkSize, chunkOverlap, start) ==
    IF ~(start < text.len) THEN <<>>
    ELSE LET end == WindowEnd(text, start, chunkSize) IN
         <<Window(text, start, end)>>
         \o (IF end >= text.len THEN <<>>
             ELSE SplitLoop(text, chunkSize, chunkOverlap, NextStart(end, chunkOverlap)))

splitWithOverlap(text, chunkSize, chunkOverlap) ==
    IF text.len <= chunkSize
    THEN << WholeText(text) >>
    ELSE SplitLoop(text, chunkSize, chunkOverlap, 0)

\* `if (!content.trim()) continue`
IsBlank(text, w) == TrimStart(text, w.tstart, w.tend) = w.tend

\* the windows of one section that become chunks, as content lengths
SectionContentLens(section, o) ==
    LET ws == splitWithOverlap(section.content, o.chunkSize, o.chunkOverlap)
        kept == SelectSeq(ws, LAMBDA w : ~IsBlank(section.content, w))
    IN  [k \in 1..Len(kept) |->
           IF section.title # 0 THEN section.title + 2 + WindowLen(kept[k])
           ELSE WindowLen(kept[k])]

GuidelineChunk(filename, index, len, sectionTitle) ==
    [id |-> filename \o <<"-chunk", ToString(index)>>,
     content |-> [len |-> len, parts |-> <<>>],
     metadata |-> [source |-> "guideline", filename |-> filename,
                   sectionTitle |-> sectionTitle, chunkIndex |-> index]]

\* the loop of chunkGuideline over the sections; acc are the chunks so far
RECURSIVE GuidelineLoop(_, _, _)
GuidelineLoop(sections, o, acc) ==
    IF sections = <<>> THEN acc
    ELSE LET lens == SectionContentLens(Head(sections), o) IN
         GuidelineLoop(Tail(sections), o,
            acc \o [k \in 1..Len(lens) |->
                      GuidelineChunk(o.filename, Len(acc) + k - 1, lens[k],
                                     Head(sections).title)])

GuidelineMergedChunk(p, c) ==
    [c EXCEPT !.content = ConcatContent(p.content, c.content),
              !.metadata.sectionTitle = IF p.metadata.sectionTitle # 0
                                        THEN p.metadata.sectionTitle
                                        ELSE c.metadata.sectionTitle]

IsDigits(tok) == \E n \in 0..99 : tok = ToString(n)

ReplaceChunkSuffixKeep(id, index) == id
\* chunk.id.replace(/-chunk\d+$/, `-chunk${index}`)
ReplaceChunkSuffix(id, index) ==
    IF Len(id) >= 2 /\ id[Len(id) - 1] = "-chunk" /\ IsDigits(id[Len(id)])
    THEN SubSeq(id, 1, Len(id) - 2) \o <<"-chunk", ToString(index)>>
    ELSE id

\* result.map((chunk, index) => ...): index is 0-based
Renumber(cs) ==
    [k \in 1..Len(cs) |->
       [cs[k] EXCEPT !.id = ReplaceChunkSuffix(cs[k].id, k - 1),
                     !.metadata.chunkIndex = k - 1]]

\* ------------------------------------------------------------------ merge pass

\* `chunk.content.length < minSize`
IsSmall(len, minSize) == len < minSize

FitsMaxStrict(len, maxSize) == len < maxSize
FitsMaxAlways(len, maxSize) == TRUE
FitsMaxWithoutSeparator(len, maxSize) == len - 2 <= maxSize
\* `mergedContent.length <= maxSize`
FitsMax(len, maxSize) == len <= maxSize

\* the thresholds the running chunker hands to its merge pass
MinSize == IF family = "law" THEN MIN_CHUNK_SIZE ELSE GUIDELINE_MIN_CHUNK_SIZE
MaxSize == IF family = "law" THEN MAX_CHUNK_SIZE ELSE opts.chunkSize

\* ------------------------------------------------------------------ actions

\* chunkLaw up to the call of mergeSmallChunks
ChunkLawSplit ==
    /\ pc = "start" /\ family = "law"
    /\ chunks' = NumberParts(IF chunkBy = "paragraph" THEN chunkByParagraph(law)
                             ELSE chunkByArticle(law))
    /\ idx' = 1 /\ pendingChunk' = <<>> /\ result' = <<>>
    /\ pc' = "merge"
    /\ UNCHANGED <<family, law, chunkBy, doc, opts>>
    /\ UNCHANGED <<splitVars, qaVars, searchVars, storeVars, ingestVars, concVars>>

\* one iteration of the for..of loop of mergeSmallChunks; mergedChunk is the
\* family's merged chunk of pendingChunk and chunk (read only when one is pending)
MergeIteration(minSize, maxSize, mergedChunk) ==
    LET chunk == chunks[idx] IN
    /\ idx' = idx + 1
    /\ \/ /\ pendingChunk = <<>>
          /\ IsSmall(chunk.content.len, minSize)
          /\ pendingChunk' = <<chunk>>
          /\ result' = result
       \/ /\ pendingChunk = <<>>
          /\ ~IsSmall(chunk.content.len, minSize)
          /\ result' = Append(result, chunk)
          /\ pendingChunk' = pendingChunk
       \/ /\ pendingChunk # <<>>
          /\ FitsMax(mergedChunk.content.len, maxSize)
          /\ IF IsSmall(mergedChunk.content.len, minSize)
             THEN pendingChunk' = <<mergedChunk>> /\ result' = result
             ELSE result' = Append(result, mergedChunk) /\ pendingChunk' = <<>>
       \/ /\ pendingChunk # <<>>
          /\ ~FitsMax(mergedChunk.content.len, maxSize)
          /\ IF IsSmall(chunk.content.len, minSize)
             THEN result' = Append(result, pendingChunk[1]) /\ pendingChunk' = <<chunk>>
             ELSE result' = Append(Append(result, pendingChunk[1]), chunk)
                  /\ pendingChunk' = <<>>

LawMergeStep ==
    /\ pc = "merge" /\ family = "law"
    /\ idx <= Len(chunks)
    /\ MergeIteration(MIN_CHUNK_SIZE, MAX_CHUNK_SIZE,
                      IF pendingChunk = <<>> THEN chunks[idx]
                      ELSE LawMergedChunk(pendingChunk[1], chunks[idx]))
    /\ UNCHANGED <<family, law, chunkBy, doc, opts, chunks, pc>>
    /\ UNCHANGED <<splitVars, qaVars, searchVars, storeVars, ingestVars, concVars>>

\* after the loop: flush the pending chunk and return
LawMergeReturn ==
    /\ pc = "merge" /\ family = "law"
    /\ idx > Len(chunks)
    /\ result' = result \o pendingChunk
    /\ pendingChunk' = <<>>
    /\ pc' = "done"
    /\ UNCHANGED <<family, law, chunkBy, doc, opts, chunks, idx>>
    /\ UNCHANGED <<splitVars, qaVars, searchVars, storeVars, ingestVars, concVars>>

\* chunkGuideline up to the call of mergeSmallChunks
ChunkGuidelineSplit ==
    /\ pc = "start" /\ family = "guideline"
    /\ chunks' = NumberParts(GuidelineLoop(splitIntoSections(doc), opts, <<>>))
    /\ idx' = 1 /\ pendingChunk' = <<>> /\ result' = <<>>
    /\ pc' = "merge"
    /\ UNCHANGED <<family, law, chunkBy, doc, opts>>
    /\ UNCHANGED <<splitVars, qaVars, searchVars, storeVars, ingestVars, concVars>>

GuidelineMergeStep ==
    /\ pc = "merge" /\ family = "guideline"
    /\ idx <= Len(chunks)
    /\ MergeIteration(GUIDELINE_MIN_CHUNK_SIZE, opts.chunkSize,
                      IF pendingChunk = <<>> THEN chunks[idx]
                      ELSE GuidelineMergedChunk(pendingChunk[1], chunks[idx]))
    /\ UNCHANGED <<family, law, chunkBy, doc, opts, chunks, pc>>
    /\ UNCHANGED <<splitVars, qaVars, searchVars, storeVars, ingestVars, concVars>>

\* after the loop: flush the pending chunk, renumber and return
GuidelineMergeReturn ==
    /\ pc = "merge" /\ family = "guideline"
    /\ idx > Len(chunks)
    /\ result' = Renumber(result \o pendingChunk)
    /\ pendingChunk' = <<>>
    /\ pc' = "done"
    /\ UNCHANGED <<family, law, chunkBy, doc, opts, chunks, idx>>
    /\ UNCHANGED <<splitVars, qaVars, searchVars, storeVars, ingestVars, concVars>>

\* ---- splitWithOverlap, one loop iteration per step

MaxTextLen == 6
MaxChunkSize == 5

\* every text of at most MaxTextLen characters over {full stop, whitespace,
\* other} that holds at most one full stop
SplitTexts ==
    UNION { { [len |-> n, periods |-> x[1], spaces |-> x[2]] :
              x \in { y \in (SUBSET (0..(n - 1))) \X (SUBSET (0..(n - 1))) :
                        y[1] \cap y[2] = {} /\ Cardinality(y[1]) <= 1 } } :
            n \in 0..MaxTextLen }

SplitOptions ==
    { o \in [chunkSize : 1..MaxChunkSize, chunkOverlap : 0..(MaxChunkSize - 1)] :
        o.chunkOverlap < o.chunkSize }

\* lines 89-93: the early return, or entering the loop with start = 0
SplitCall ==
    /\ sPc = "call"
    /\ IF sText.len <= sOpts.chunkSize
       THEN sChunks' = <<WholeText(sText)>> /\ sPc' = "done"
       ELSE sChunks' = <<>> /\ sPc' = "loop"
    /\ sStart' = 0
    /\ UNCHANGED <<sText, sOpts>>
    /\ UNCHANGED <<chunkVars, qaVars, searchVars, storeVars, ingestVars, concVars>>

\* the test of the while loop and, when it passes, one iteration.  A call that
\* does not terminate pushes windows for ever: the model stops following it
\* once it holds more windows than the text has characters.
SplitIteration ==
    /\ sPc = "loop"
    /\ Len(sChunks) <= sText.len
    /\ IF ~(sStart < sText.len)
       THEN sPc' = "done" /\ UNCHANGED <<sStart, sChunks>>
       ELSE LET end == WindowEnd(sText, sStart, sOpts.chunkSize) IN
            /\ sChunks' = Append(sChunks, Window(sText, sStart, end))
            /\ sStart' = NextStart(end, sOpts.chunkOverlap)
            /\ sPc' = IF end >= sText.len THEN "done" ELSE "loop"
    /\ UNCHANGED <<sText, sOpts>>
    /\ UNCHANGED <<chunkVars, qaVars, searchVars, storeVars, ingestVars, concVars>>

\* ------------------------------------------------------------------ Q&A

MaxItems == 3

\* the rule marker "\n\n---\n\n" between combined items
SeparatorLen == 7

\* stands for the default category of items without one
DefaultCategory == <<"ippan">>

\* A category is a list of one-character tokens, " " being whitespace; the
\* question and the answer are their lengths.
QaItem(i, c, l) ==
    [id |-> <<"q1", "q2", "q3", "q4">>[i], category |-> c, question |-> l.question, answer |-> l.answer]

QaInputs ==
    UNION { { [source |-> "representation",
               items |-> [i \in 1..n |-> QaItem(i, cs[i], ls[i])]] :
              cs \in [1..n -> { <<>>, <<"A">>, <<"A", " ", "B">> }],
              ls \in [1..n -> { [question |-> 1, answer |-> 1],
                                 [question |-> 496, answer |-> 496] }] } : n \in 0..MaxItems }

\* formatQaContent: the length of lines.join("\n\n")
FormatQaContentLen(item) ==
    LET lines == (IF item.category # <<>> THEN <<Len(item.category) + 2>> ELSE <<>>)
                 \o <<3 + item.question>> \o <<3 + item.answer>>
    IN  SumSeq(lines) + 2 * (Len(lines) - 1)

qaItemToChunk(item, data) ==
    [id |-> <<item.id>>,
     content |-> [len |-> FormatQaContentLen(item), parts |-> <<item.id>>],
     metadata |-> [source |-> "qa", qaSource |-> data.source,
                   category |-> item.category, originalId |-> <<item.id>>]]

\* the grouping loop: entries [category, items] in order of first appearance
RECURSIVE GroupLoop(_, _)
GroupLoop(items, groups) ==
    IF items = <<>> THEN groups
    ELSE LET item == Head(items)
             category == IF item.category # <<>> THEN item.category ELSE DefaultCategory
             at == { g \in 1..Len(groups) : groups[g].category = category }
         IN  GroupLoop(Tail(items),
                IF at = {}
                THEN Append(groups, [category |-> category, items |-> <<item>>])
                ELSE LET g == CHOOSE x \in at : TRUE
                     IN  [groups EXCEPT ![g].items = Append(@, item)])

\* category.replace(/\s+/g, "-")
RECURSIVE Sanitize(_)
Sanitize(cat) ==
    IF cat = <<>> THEN <<>>
    ELSE IF Head(cat) = " "
         THEN IF Len(cat) >= 2 /\ cat[2] = " " THEN Sanitize(Tail(cat))
              ELSE <<"-">> \o Sanitize(Tail(cat))
         ELSE <<Head(cat)>> \o Sanitize(Tail(cat))

JoinIdsFirstOnly(items) == IF items = <<>> THEN <<>> ELSE <<items[1].id>>
\* currentItems.map((i) => i.id).join(",")
RECURSIVE JoinIds(_)
JoinIds(items) ==
    IF items = <<>> THEN <<>>
    ELSE IF Len(items) = 1 THEN <<items[1].id>>
    ELSE <<items[1].id, ",">> \o JoinIds(Tail(items))

CombinedChunk(data, category, index, content, items) ==
    [id |-> <<data.source, "-">> \o Sanitize(category) \o <<"-", ToString(index)>>,
     content |-> content,
     metadata |-> [source |-> "qa", qaSource |-> data.source,
                   category |-> category, originalId |-> JoinIds(items)]]

\* the test at lines 100-103
MustFlush(curLen, itemLen, maxChunkSize) ==
    curLen > 0 /\ curLen + itemLen > maxChunkSize

EmptyContent == [len |-> 0, parts |-> <<>>]

\* `!combineRelated`: one chunk per item
ChunkQaDefault ==
    /\ qPc = "start" /\ ~qaOptions.combineRelated
    /\ qChunks' = [i \in 1..Len(qaData.items) |-> qaItemToChunk(qaData.items[i], qaData)]
    /\ qPc' = "done"
    /\ UNCHANGED <<qaData, qaOptions, itemsByCategory, qCat, qItem, currentContent,
                   currentItems, chunkIndex>>
    /\ UNCHANGED <<chunkVars, splitVars, searchVars, storeVars, ingestVars, concVars>>

\* lines 78-88: group the items by category
ChunkQaGroup ==
    /\ qPc = "start" /\ qaOptions.combineRelated
    /\ itemsByCategory' = GroupLoop(qaData.items, <<>>)
    /\ qCat' = 1
    /\ qPc' = "category"
    /\ UNCHANGED <<qaData, qaOptions, qItem, currentContent, currentItems, chunkIndex,
                   qChunks>>
    /\ UNCHANGED <<chunkVars, splitVars, searchVars, storeVars, ingestVars, concVars>>

\* lines 91-94: the next category and its fresh locals
QaCategoryStart ==
    /\ qPc = "category" /\ qCat <= Len(itemsByCategory)
    /\ currentContent' = EmptyContent /\ currentItems' = <<>> /\ chunkIndex' = 1
    /\ qItem' = 1
    /\ qPc' = "item"
    /\ UNCHANGED <<qaData, qaOptions, itemsByCategory, qCat, qChunks>>
    /\ UNCHANGED <<chunkVars, splitVars, searchVars, storeVars, ingestVars, concVars>>

\* lines 96-127: one item of the category: flush first if it must, then append
QaItemStep ==
    /\ qPc = "item" /\ qItem <= Len(itemsByCategory[qCat].items)
    /\ LET item == itemsByCategory[qCat].items[qItem]
           formattedItem == FormatQaContentLen(item)
           flush == MustFlush(currentContent.len, formattedItem, qaOptions.maxChunkSize)
           content == IF flush THEN EmptyContent ELSE currentContent
           its == IF flush THEN <<>> ELSE currentItems
       IN  /\ qChunks' = IF flush
                         THEN Append(qChunks,
                                CombinedChunk(qaData, itemsByCategory[qCat].category,
                                              chunkIndex, currentContent, currentItems))
                         ELSE qChunks
           /\ chunkIndex' = IF flush THEN chunkIndex + 1 ELSE chunkIndex
           /\ currentContent' =
                [len |-> (IF content.len > 0 THEN content.len + SeparatorLen ELSE 0)
                         + formattedItem,
                 parts |-> Append(content.parts, item.id)]
           /\ currentItems' = Append(its, item)
    /\ qItem' = qItem + 1
    /\ UNCHANGED <<qaData, qaOptions, itemsByCategory, qCat, qPc>>
    /\ UNCHANGED <<chunkVars, splitVars, searchVars, storeVars, ingestVars, concVars>>

\* lines 129-143: the rest of the category
QaCategoryEnd ==
    /\ qPc = "item" /\ qItem > Len(itemsByCategory[qCat].items)
    /\ qChunks' = IF currentContent.len > 0
                  THEN Append(qChunks,
                         CombinedChunk(qaData, itemsByCategory[qCat].category,
                                       chunkIndex, currentContent, currentItems))
                  ELSE qChunks
    /\ qCat' = qCat + 1
    /\ qPc' = "category"
    /\ UNCHANGED <<qaData, qaOptions, itemsByCategory, qItem, currentContent,
                   currentItems, chunkIndex>>
    /\ UNCHANGED <<chunkVars, splitVars, searchVars, storeVars, ingestVars, concVars>>

ChunkQaReturn ==
    /\ qPc = "category" /\ qCat > Len(itemsByCategory)
    /\ qPc' = "done"
    /\ UNCHANGED <<qaData, qaOptions, itemsByCategory, qCat, qItem, currentContent,
                   currentItems, chunkIndex, qChunks>>
    /\ UNCHANGED <<chunkVars, splitVars, searchVars, storeVars, ingestVars, concVars>>

\* ------------------------------------------------------------------ multiSearch

MaxRows == 2

VALID_SOURCES == {"law", "guideline", "qa", "violation"}

\* validateSource: the value, or the thrown Error
\* What a call comes to: the value it returns, or the error it throws with
\* the error's class, its `operation` and whether it carries a `cause`.
Returned(value) == [thrown |-> FALSE, value |-> value]

Thrown(name, operation, hasCause) ==
    [thrown |-> TRUE, name |-> name, operation |-> operation, cause |-> hasCause]

AcceptsAnySource(source) == TRUE
IsValidSource(source) == source \in VALID_SOURCES

validateSource(source) ==
    IF ~IsValidSource(source) THEN Thrown("Error", "", FALSE) ELSE Returned(source)

\* ---- chunks, stored rows and their metadata

\* A metadata object is the list of its properties <<key, type, value>> in
\* insertion order; a property whose value is undefined has type "undefined".
Prop(key, type, value) == <<key, type, value>>

PropOf(meta, key) == meta[CHOOSE k \in 1..Len(meta) : meta[k][1] = key]

\* LawChunk["metadata"], as chunkByArticle and chunkByParagraph fill it
LawMetadata(articleTitle, paragraphNumber) ==
    << Prop("source", "string", "law"),
       Prop("lawId", "string", "L"),
       Prop("lawTitle", "string", "LT"),
       Prop("articleNumber", "string", "5"),
       Prop("articleTitle", IF articleTitle = "" THEN "undefined" ELSE "string", articleTitle) >>
    \o (IF paragraphNumber = "" THEN <<>>
        ELSE <<Prop("paragraphNumber", "number", paragraphNumber)>>)
    \o << Prop("chunkType", "string",
               IF paragraphNumber = "" THEN "article" ELSE "paragraph") >>

\* GuidelineChunk["metadata"], as chunkGuideline fills it
GuidelineMetadata(title, sectionTitle) ==
    << Prop("source", "string", "guideline"),
       Prop("filename", "string", "g.pdf"),
       Prop("title", IF title = "" THEN "undefined" ELSE "string", title),
       Prop("sectionTitle", IF sectionTitle = "" THEN "undefined" ELSE "string",
            sectionTitle),
       Prop("chunkIndex", "number", "0") >>

\* QaChunk["metadata"], as qaItemToChunk fills it
QaMetadata(category) ==
    << Prop("source", "string", "qa"),
       Prop("qaSource", "string", "representation"),
       Prop("category", "string", category),
       Prop("originalId", "string", "q1"),
       Prop("url", "string", "u") >>

Chunk(id, content, metadata) == [id |-> id, content |-> content, metadata |-> metadata]

\* an article chunk of an untitled article, a paragraph chunk of a titled
\* one, two guideline chunks and a QA chunk
DocumentChunks ==
    { Chunk("L-art5", "law5", LawMetadata("", "")),
      Chunk("L-art5-para2", "law5", LawMetadata("T", "2")),
      Chunk("g.pdf-chunk0", "guide", GuidelineMetadata("", "")),
      Chunk("g.pdf-chunk0", "guide", GuidelineMetadata("GT", "S1")),
      Chunk("q1", "qa1", QaMetadata("A B")) }

\* JSON.stringify of a metadata object: a property whose value is undefined
\* is left out; strings stay strings and numbers stay numbers.  The text is
\* [parseable, props].
JSONStringifyNumbersAsStrings(meta) ==
    [parseable |-> TRUE,
     props |-> [k \in 1..Len(SelectSeq(meta, LAMBDA p : p[2] # "undefined")) |->
                  LET p == SelectSeq(meta, LAMBDA q : q[2] # "undefined")[k]
                  IN  Prop(p[1], "string", p[3])]]
JSONStringify(meta) ==
    [parseable |-> TRUE, props |-> SelectSeq(meta, LAMBDA p : p[2] # "undefined")]

\* JSON.parse of a parseable text
JSONParse(text) == text.props

\* `"key" in meta ? String(meta.key) : ""`; String(undefined) is "undefined"
Column(meta, key) ==
    IF \E k \in 1..Len(meta) : meta[k][1] = key
    THEN LET prop == PropOf(meta, key)
         IN  IF prop[2] = "undefined" THEN "undefined" ELSE prop[3]
    ELSE ""

\* A column value a row holds: its JavaScript type and its value.
Cell(type, val) == [type |-> type, val |-> val]
Str(val) == Cell("string", val)

\* lines 140-154: the StoredDocument row of a chunk, with the distance the
\* table computes for it on a similarity query (the stored vector itself)
StoredDocument(chunk, vector) ==
    [id |-> Str(chunk.id),
     content |-> Str(chunk.content),
     source |-> Str(PropOf(chunk.metadata, "source")[3]),
     articleNumber |-> Str(Column(chunk.metadata, "articleNumber")),
     category |-> Str(Column(chunk.metadata, "category")),
     filename |-> Str(Column(chunk.metadata, "filename")),
     metadata |-> Str(JSONStringify(chunk.metadata)),
     distance |-> Cell("number", vector)]

\* a well-formed row of the given source at the given distance
WellFormedRow(id, source, distance) ==
    [id |-> Str(id),
     content |-> Str("text"),
     source |-> Str(source),
     articleNumber |-> Str(""),
     category |-> Str(""),
     filename |-> Str(""),
     metadata |-> Str(JSONStringify(<<Prop("source", "string", source)>>)),
     distance |-> Cell("number", distance)]

\* rows of the table: the source column and the distance to the query
Tables ==
    UNION { { [i \in 1..n |-> WellFormedRow(ToString(i), rs[i].source, rs[i].distance)] :
              rs \in [1..n -> [source : {"law", "guideline", "qa"}, distance : 0..1]] } : n \in 0..MaxRows }

RECURSIVE InsertByScoreBeforeTies(_, _)
InsertByScoreBeforeTies(r, sorted) ==
    IF sorted = <<>> THEN <<r>>
    ELSE IF Head(sorted).score < r.score
         THEN <<Head(sorted)>> \o InsertByScoreBeforeTies(r, Tail(sorted))
         ELSE <<r>> \o sorted

\* Array.prototype.sort is stable: an element goes after the elements that
\* compare equal to it and came before it
RECURSIVE InsertByScore(_, _)
InsertByScore(r, sorted) ==
    IF sorted = <<>> THEN <<r>>
    ELSE IF Head(sorted).score <= r.score
         THEN <<Head(sorted)>> \o InsertByScore(r, Tail(sorted))
         ELSE <<r>> \o sorted

RECURSIVE SortLoop(_, _)
SortLoop(rs, sorted) ==
    IF rs = <<>> THEN sorted ELSE SortLoop(Tail(rs), InsertByScore(Head(rs), sorted))

SortByScoreNone(rs) == rs
\* `.sort((a, b) => a.score - b.score)`: ascending, stable
SortByScore(rs) == SortLoop(rs, <<>>)

RECURSIVE Flat(_)
Flat(lists) == IF lists = <<>> THEN <<>> ELSE Head(lists) \o Flat(Tail(lists))

parseSearchResultCoercing(row) ==
    Returned(
        [id |-> row.id.val,
         content |-> row.content.val,
         source |-> row.source.val,
         articleNumber |-> row.articleNumber.val,
         category |-> row.category.val,
         filename |-> row.filename.val,
         metadata |-> JSONParse(row.metadata.val),
         score |-> row.distance.val])
\* parseSearchResult: the SearchResult of a row, or the Error it throws
parseSearchResult(row) ==
    IF row.id.type # "string" THEN Thrown("Error", "", FALSE)
    ELSE IF row.content.type # "string" THEN Thrown("Error", "", FALSE)
    ELSE IF row.source.type # "string" THEN Thrown("Error", "", FALSE)
    ELSE IF row.metadata.type # "string" THEN Thrown("Error", "", FALSE)
    ELSE IF row.distance.type # "number" THEN Thrown("Error", "", FALSE)
    ELSE IF validateSource(row.source.val).thrown THEN validateSource(row.source.val)
    ELSE IF ~row.metadata.val.parseable THEN Thrown("Error", "", FALSE)
    ELSE Returned(
         [id |-> row.id.val,
          content |-> row.content.val,
          source |-> validateSource(row.source.val).value,
          articleNumber |-> IF row.articleNumber.type = "string"
                            THEN row.articleNumber.val ELSE "",
          category |-> IF row.category.type = "string" THEN row.category.val ELSE "",
          filename |-> IF row.filename.type = "string" THEN row.filename.val ELSE "",
          metadata |-> JSONParse(row.metadata.val),
          score |-> row.distance.val])

\* the filter predicate `source = '<v>'`
SourcePredicate(v) == "source = '" \o v \o "'"

\* the strings a caller may pass as options.source
SourceStrings == VALID_SOURCES \cup {"", "bogus"}

\* the table's evaluation of a predicate on a row; "" stands for no predicate
Satisfies(row, predicate) ==
    \/ predicate = ""
    \/ \E v \in SourceStrings :
         /\ predicate = SourcePredicate(v)
         /\ row.source.type = "string" /\ row.source.val = v

RECURSIVE InsertByDistance(_, _)
InsertByDistance(r, sorted) ==
    IF sorted = <<>> THEN <<r>>
    ELSE IF Head(sorted).distance.val <= r.distance.val
         THEN <<Head(sorted)>> \o InsertByDistance(r, Tail(sorted))
         ELSE <<r>> \o sorted

RECURSIVE NearestFirst(_, _)
NearestFirst(rs, sorted) ==
    IF rs = <<>> THEN sorted ELSE NearestFirst(Tail(rs), InsertByDistance(Head(rs), sorted))

\* table.vectorSearch(v).limit(limit).where(predicate).toArray(): the limit
\* nearest rows that satisfy the predicate, nearest first
ToArrayUnfiltered(tbl, predicate, limit) ==
    LET hits == NearestFirst(tbl, <<>>)
    IN  SubSeq(hits, 1, Min(limit, Len(hits)))
ToArray(tbl, predicate, limit) ==
    LET hits == NearestFirst(SelectSeq(tbl, LAMBDA r : Satisfies(r, predicate)), <<>>)
    IN  SubSeq(hits, 1, Min(limit, Len(hits)))

\* line 281: results.map(parseSearchResult): the results, or the first Error
ParseAll(rows) ==
    LET parsed == [k \in 1..Len(rows) |-> parseSearchResult(rows[k])]
    IN  IF \E k \in 1..Len(rows) : parsed[k].thrown
        THEN parsed[CHOOSE k \in 1..Len(rows) :
                      /\ parsed[k].thrown
                      /\ \A j \in 1..(k - 1) : ~parsed[j].thrown]
        ELSE Returned([k \in 1..Len(rows) |-> parsed[k].value])

\* lines 262-281 for a validated source: what the search resolves to
VectorSearch(tbl, source, limit) ==
    ParseAll(ToArray(tbl, SourcePredicate(source), limit))

\* line 301, `await Promise.all(searches)`: the promise fulfils once every
\* search has fulfilled and rejects as soon as one search has rejected
PromiseAllFulfilsOnAny(ss) == \E i \in 1..Len(ss) : ss[i] = "fulfilled"
PromiseAllFulfilled(ss) == \A i \in 1..Len(ss) : ss[i] = "fulfilled"

PromiseAllRejected(ss) == \E i \in 1..Len(ss) : ss[i] = "rejected"

\* line 299: one search per source, all started before any is awaited
MultiSearchStart ==
    /\ msState = "start"
    /\ searches' = [i \in 1..Len(msSources) |-> "pending"]
    /\ searchResults' = [i \in 1..Len(msSources) |-> <<>>]
    /\ msState' = "awaiting"
    /\ UNCHANGED <<table, msSources, msLimit, completion, msOutput>>
    /\ UNCHANGED <<chunkVars, splitVars, qaVars, storeVars, ingestVars, concVars>>

\* a search resolves with its rows
SearchFulfil(i) ==
    /\ msState # "start" /\ searches[i] = "pending"
    /\ msSources[i] \in VALID_SOURCES
    /\ ~VectorSearch(table, msSources[i], msLimit).thrown
    /\ searches' = [searches EXCEPT ![i] = "fulfilled"]
    /\ searchResults' =
         [searchResults EXCEPT ![i] = VectorSearch(table, msSources[i], msLimit).value]
    /\ completion' = Append(completion, i)
    /\ UNCHANGED <<table, msSources, msLimit, msState, msOutput>>
    /\ UNCHANGED <<chunkVars, splitVars, qaVars, storeVars, ingestVars, concVars>>

\* a search throws: the table, the embedding call or the query failed
SearchReject(i) ==
    /\ msState # "start" /\ searches[i] = "pending"
    /\ searches' = [searches EXCEPT ![i] = "rejected"]
    /\ completion' = Append(completion, i)
    /\ UNCHANGED <<table, msSources, msLimit, searchResults, msState, msOutput>>
    /\ UNCHANGED <<chunkVars, splitVars, qaVars, storeVars, ingestVars, concVars>>

\* lines 301-303: Promise.all resolved; flatten in the order of sources and sort
MultiSearchReturn ==
    /\ msState = "awaiting"
    /\ PromiseAllFulfilled(searches)
    /\ msOutput' = SortByScore(Flat(searchResults))
    /\ msState' = "returned"
    /\ UNCHANGED <<table, msSources, msLimit, searches, searchResults, completion>>
    /\ UNCHANGED <<chunkVars, splitVars, qaVars, storeVars, ingestVars, concVars>>

\* line 301: Promise.all rejected because one search was rejected
MultiSearchThrow ==
    /\ msState = "awaiting"
    /\ PromiseAllRejected(searches)
    /\ msState' = "thrown"
    /\ UNCHANGED <<table, msSources, msLimit, searches, searchResults, completion, msOutput>>
    /\ UNCHANGED <<chunkVars, splitVars, qaVars, storeVars, ingestVars, concVars>>

\* ------------------------------------------------------------------ document store

MaxStored == 2

NoTable == [exists |-> FALSE, rows |-> <<>>]
Table(rows) == [exists |-> TRUE, rows |-> rows]

\* rows that fail one of parseSearchResult's checks, each at distance 1
MalformedRows ==
    { [WellFormedRow("m", "law", 1) EXCEPT !.id = Cell("number", "7")],
      [WellFormedRow("m", "law", 1) EXCEPT !.content = Cell("undefined", "")],
      [WellFormedRow("m", "law", 1) EXCEPT !.source = Cell("number", "7")],
      [WellFormedRow("m", "law", 1) EXCEPT
          !.metadata = Cell("object", JSONStringify(<<>>))],
      [WellFormedRow("m", "law", 1) EXCEPT !.distance = Cell("string", 1)],
      WellFormedRow("m", "bogus", 1),
      [WellFormedRow("m", "law", 1) EXCEPT
          !.metadata = Str([parseable |-> FALSE, props |-> <<>>])] }

\* what the table holds when the first call is made
InitialTables ==
    { NoTable, Table(<<>>),
      Table(<<WellFormedRow("a", "law", 1), WellFormedRow("b", "qa", 0)>>),
      Table(<<WellFormedRow("a", "violation", 0), WellFormedRow("b", "law", 0)>>),
      Table(<<WellFormedRow("a", "law", 0),
              [WellFormedRow("b", "law", 1) EXCEPT !.category = Cell("number", "7")]>>) }
    \cup { Table(<<WellFormedRow("a", "law", 0), m>>) : m \in MalformedRows }

\* a query is the list of its characters, " " being whitespace
Queries == { <<>>, <<" ", " ">>, <<"q">>, <<" ", "q">> }

\* options.source: <<>> for undefined
SearchSources == {<<>>} \cup { <<v>> : v \in SourceStrings }

ChunkLists ==
    {<<>>} \cup { <<c>> : c \in DocumentChunks }
    \cup { <<Chunk("q1", "qa1", QaMetadata("A B")),
             Chunk("L-art5", "law5", LawMetadata("", ""))>> }

RECURSIVE TrimQuery(_)
TrimQuery(q) ==
    IF q = <<>> THEN q
    ELSE IF Head(q) = " " THEN TrimQuery(Tail(q))
    ELSE IF q[Len(q)] = " " THEN TrimQuery(SubSeq(q, 1, Len(q) - 1))
    ELSE q

\* line 245: `!query || query.trim().length === 0`
QueryIsEmptyUntrimmed(query) == query = <<>>
QueryIsEmpty(query) == query = <<>> \/ Len(TrimQuery(query)) = 0

\* line 265: `if (source)`
Truthy(source) == source # <<>> /\ source[1] # ""

\* the embedding provider: the vector of a text
Embedding(content) == Len(content) % 2


Pending == [thrown |-> FALSE, value |-> [results |-> <<>>, count |-> 0, pending |-> TRUE]]
Value(results, rows) ==
    Returned([results |-> results, count |-> rows, pending |-> FALSE])

\* `before` is the table as the call found it, `previous` the call before it
NoCall ==
    [op |-> "none", query |-> <<>>, limit |-> 0, source |-> <<>>, chunks |-> <<>>,
     before |-> NoTable, previous |-> "none"]

\* the call ends: what its caller sees.  countDocuments catches everything
\* (lines 322-327) and returns 0.
Settle(op, outcome) ==
    /\ stOutcome' = IF op = "countDocuments" /\ outcome.thrown
                    THEN Value(<<>>, 0) ELSE outcome
    /\ stPc' = "settled"

\* a caller calls search, addDocuments, clearTable or countDocuments; the
\* call runs to its first await
SearchCall(query, limit, source) ==
    /\ stCall' = [op |-> "search", query |-> query, limit |-> limit, source |-> source,
                  chunks |-> <<>>, before |-> documents, previous |-> stCall.previous]
    /\ IF QueryIsEmpty(query)
       THEN Settle("search", Thrown("VectorStoreError", "search", FALSE))
       ELSE stPc' = "getDb" /\ stOutcome' = Pending

AddDocumentsCall(chs) ==
    /\ stCall' = [op |-> "addDocuments", query |-> <<>>, limit |-> 0, source |-> <<>>,
                  chunks |-> chs, before |-> documents, previous |-> stCall.previous]
    /\ IF Len(chs) = 0
       THEN Settle("addDocuments", Value(<<>>, 0))
       ELSE stPc' = "getDb" /\ stOutcome' = Pending

OtherCall(op) ==
    /\ stCall' = [op |-> op, query |-> <<>>, limit |-> 0, source |-> <<>>,
                  chunks |-> <<>>, before |-> documents, previous |-> stCall.previous]
    /\ stPc' = "getDb" /\ stOutcome' = Pending

StoreCall ==
    /\ stPc = "ready"
    /\ \/ \E q \in Queries, l \in {1, 2}, src \in SearchSources : SearchCall(q, l, src)
       \/ \E chs \in ChunkLists :
            /\ Len(documents.rows) + Len(chs) <= MaxStored
            /\ AddDocumentsCall(chs)
       \/ OtherCall("clearTable")
       \/ OtherCall("countDocuments")
    /\ stIo' = <<>>
    /\ UNCHANGED <<dbInstance, documents>>
    /\ UNCHANGED <<chunkVars, splitVars, qaVars, searchVars, ingestVars, concVars>>

\* the caller's await resumes with the outcome; it may make its next call
StoreResume ==
    /\ stPc = "settled"
    /\ stPc' = "ready"
    /\ stCall' = [NoCall EXCEPT !.previous = stCall.op]
    /\ stIo' = <<>>
    /\ stOutcome' = Pending
    /\ UNCHANGED <<dbInstance, documents>>
    /\ UNCHANGED <<chunkVars, splitVars, qaVars, searchVars, ingestVars, concVars>>

\* `tableNames.includes(TABLE_NAME)`, lines 97, 161 and 313
IncludesTableAlways(tbl) == TRUE
IncludesTable(tbl) == tbl.exists

\* an I/O operation the call performed: the predicate it carried ("" for
\* none) and whether the provider or the store failed on it
Did(op, predicate, fault) ==
    stIo' = Append(stIo, [op |-> op, predicate |-> predicate, fault |-> fault])

\* the Error a rejected store call rejects with, as it leaves an unguarded await
Unwrapped == Thrown("Error", "", FALSE)

\* getDb, lines 75-88: connect unless already connected
GetDb ==
    /\ stPc = "getDb"
    /\ IF dbInstance
       THEN /\ stPc' = "tableNames"
            /\ UNCHANGED <<dbInstance, stIo, stOutcome>>
       ELSE \/ /\ Did("connect", "", FALSE)
               /\ dbInstance' = TRUE
               /\ stPc' = "tableNames"
               /\ UNCHANGED stOutcome
            \/ /\ Did("connect", "", TRUE)
               /\ Settle(stCall.op, Thrown("VectorStoreError", "connect", TRUE))
               /\ UNCHANGED dbInstance
    /\ UNCHANGED <<documents, stCall>>
    /\ UNCHANGED <<chunkVars, splitVars, qaVars, searchVars, ingestVars, concVars>>

\* db.tableNames() at line 95 (getTable), 117 (addDocuments), 311 (clearTable)
\* and what follows up to the next await
TableNames ==
    /\ stPc = "tableNames"
    /\ \/ /\ Did("tableNames", "", FALSE)
          /\ CASE stCall.op = "addDocuments" ->
                    stPc' = "embed" /\ UNCHANGED stOutcome
               [] stCall.op = "clearTable" ->
                    IF IncludesTable(documents)
                    THEN stPc' = "dropTable" /\ UNCHANGED stOutcome
                    ELSE Settle(stCall.op, Value(<<>>, 0))
               [] OTHER ->
                    IF IncludesTable(documents)
                    THEN stPc' = "openTable" /\ UNCHANGED stOutcome
                    ELSE Settle(stCall.op, Thrown("Error", "", FALSE))
       \/ /\ Did("tableNames", "", TRUE)
          /\ Settle(stCall.op,
                    IF stCall.op = "addDocuments"
                    THEN Thrown("VectorStoreError", "tableNames", TRUE)
                    ELSE Unwrapped)
    /\ UNCHANGED <<dbInstance, documents, stCall>>
    /\ UNCHANGED <<chunkVars, splitVars, qaVars, searchVars, ingestVars, concVars>>

\* what a rejected open, add or create comes to: wrapped by the try of lines
\* 160-175 in addDocuments, unwrapped in getTable
OpenRejected(op) ==
    IF op = "addDocuments" THEN Thrown("VectorStoreError", "addDocuments", TRUE)
    ELSE Unwrapped

\* db.openTable() at line 98 (getTable) and line 163 (addDocuments); the
\* store rejects opening a table it does not hold
OpenTable ==
    /\ stPc = "openTable"
    /\ \/ /\ Did("openTable", "", FALSE)
          /\ IF documents.exists
             THEN /\ stPc' = CASE stCall.op = "addDocuments" -> "add"
                               [] stCall.op = "search" -> "embed"
                               [] OTHER -> "countRows"
                  /\ UNCHANGED stOutcome
             ELSE Settle(stCall.op, OpenRejected(stCall.op))
       \/ /\ Did("openTable", "", TRUE)
          /\ Settle(stCall.op, OpenRejected(stCall.op))
    /\ UNCHANGED <<dbInstance, documents, stCall>>
    /\ UNCHANGED <<chunkVars, splitVars, qaVars, searchVars, ingestVars, concVars>>

EmbedCall(op) == IF op = "search" THEN "embedText" ELSE "embedTexts"

\* what a rejected embedding comes to: the catch blocks of lines 131-137 and
\* 254-260 throw it on, wrapped
EmbedRejectedIgnored(op) == Returned(<<>>)
EmbedRejected(op) == Thrown("VectorStoreError", EmbedCall(op), TRUE)

\* embedTexts at line 130, embedText at line 253, and for search the source
\* validation of lines 265-268
Embed ==
    /\ stPc = "embed"
    /\ \E fault \in BOOLEAN :
         /\ Did(EmbedCall(stCall.op), "", fault)
         /\ IF fault /\ EmbedRejected(stCall.op).thrown
            THEN Settle(stCall.op, EmbedRejected(stCall.op))
            ELSE IF stCall.op = "addDocuments"
            THEN /\ stPc' = IF IncludesTable(documents) THEN "openTable" ELSE "createTable"
                 /\ UNCHANGED stOutcome
            ELSE IF Truthy(stCall.source) /\ validateSource(stCall.source[1]).thrown
                 THEN Settle(stCall.op, validateSource(stCall.source[1]))
                 ELSE stPc' = "toArray" /\ UNCHANGED stOutcome
    /\ UNCHANGED <<dbInstance, documents, stCall>>
    /\ UNCHANGED <<chunkVars, splitVars, qaVars, searchVars, ingestVars, concVars>>

\* lines 262-268: the predicate the query carries, "" for none
Where(source) ==
    IF Truthy(source) THEN SourcePredicate(validateSource(source[1]).value) ELSE ""

\* lines 270-281: the similarity query and the decoding of its rows
Query ==
    /\ stPc = "toArray"
    /\ \/ /\ Did("toArray", Where(stCall.source), FALSE)
          /\ Settle(stCall.op,
                    LET parsed == ParseAll(ToArray(documents.rows, Where(stCall.source),
                                                   stCall.limit))
                    IN  IF parsed.thrown THEN parsed ELSE Value(parsed.value, 0))
       \/ /\ Did("toArray", Where(stCall.source), TRUE)
          /\ Settle(stCall.op, Thrown("VectorStoreError", "vectorSearch", TRUE))
    /\ UNCHANGED <<dbInstance, documents, stCall>>
    /\ UNCHANGED <<chunkVars, splitVars, qaVars, searchVars, ingestVars, concVars>>

\* lines 140-154
StoredDocuments(chs) ==
    [i \in 1..Len(chs) |-> StoredDocument(chs[i], Embedding(chs[i].content))]

\* table.add(records): the rows are appended
AddRowsOverwriting(tbl, records) == Table(records)
AddRows(tbl, records) == Table(tbl.rows \o records)

\* line 164
Add ==
    /\ stPc = "add"
    /\ \/ /\ Did("add", "", FALSE)
          /\ documents' = AddRows(documents, StoredDocuments(stCall.chunks))
          /\ Settle(stCall.op, Value(<<>>, 0))
       \/ /\ Did("add", "", TRUE)
          /\ Settle(stCall.op, Thrown("VectorStoreError", "addDocuments", TRUE))
          /\ UNCHANGED documents
    /\ UNCHANGED <<dbInstance, stCall>>
    /\ UNCHANGED <<chunkVars, splitVars, qaVars, searchVars, ingestVars, concVars>>

\* line 167; the store rejects creating a table it already holds
CreateTable ==
    /\ stPc = "createTable"
    /\ \/ /\ Did("createTable", "", FALSE)
          /\ IF documents.exists
             THEN /\ Settle(stCall.op, Thrown("VectorStoreError", "addDocuments", TRUE))
                  /\ UNCHANGED documents
             ELSE /\ documents' = Table(StoredDocuments(stCall.chunks))
                  /\ Settle(stCall.op, Value(<<>>, 0))
       \/ /\ Did("createTable", "", TRUE)
          /\ Settle(stCall.op, Thrown("VectorStoreError", "addDocuments", TRUE))
          /\ UNCHANGED documents
    /\ UNCHANGED <<dbInstance, stCall>>
    /\ UNCHANGED <<chunkVars, splitVars, qaVars, searchVars, ingestVars, concVars>>

\* line 314; the store rejects dropping a table it does not hold
DropTable ==
    /\ stPc = "dropTable"
    /\ \/ /\ Did("dropTable", "", FALSE)
          /\ IF documents.exists
             THEN /\ documents' = NoTable
                  /\ Settle(stCall.op, Value(<<>>, 0))
             ELSE /\ Settle(stCall.op, Unwrapped)
                  /\ UNCHANGED documents
       \/ /\ Did("dropTable", "", TRUE)
          /\ Settle(stCall.op, Unwrapped)
          /\ UNCHANGED documents
    /\ UNCHANGED <<dbInstance, stCall>>
    /\ UNCHANGED <<chunkVars, splitVars, qaVars, searchVars, ingestVars, concVars>>


\* line 324
CountRows ==
    /\ stPc = "countRows"
    /\ \/ /\ Did("countRows", "", FALSE)
          /\ Settle(stCall.op, Value(<<>>, Len(documents.rows)))
       \/ /\ Did("countRows", "", TRUE)
          /\ Settle(stCall.op, Unwrapped)
    /\ UNCHANGED <<dbInstance, documents, stCall>>
    /\ UNCHANGED <<chunkVars, splitVars, qaVars, searchVars, ingestVars, concVars>>

\* ---- store calls in flight at the same time: each action is the stretch of
\* one call between two awaits

MaxCalls == 2

\* a call of search (chunks = 0) or of addDocuments with `chunks` chunks
StoreCalls ==
    [op : {"search"}, chunks : {0}, pc : {"getDb"}, db : {0}, includes : {FALSE}]
    \cup [op : {"addDocuments"}, chunks : {1, 2}, pc : {"getDb"}, db : {0},
          includes : {FALSE}]

At(p, await) == p \in DOMAIN cCalls /\ cCalls[p].pc = await

\* getDb, lines 76-78: the test of dbInstance and the invocation of
\* lancedb.connect happen before the call is suspended
ConcGetDb(p) ==
    /\ At(p, "getDb")
    /\ IF cDbInstance # 0
       THEN /\ cCalls' = [cCalls EXCEPT ![p].db = cDbInstance, ![p].pc = "tableNames"]
            /\ UNCHANGED connects
       ELSE /\ connects' = connects + 1
            /\ cCalls' = [cCalls EXCEPT ![p].db = connects + 1, ![p].pc = "connect"]
    /\ UNCHANGED <<cDbInstance, cDocuments, cBefore>>
    /\ UNCHANGED <<chunkVars, splitVars, qaVars, searchVars, storeVars, ingestVars>>

\* lines 78 and 87: connect resolved; the connection is assigned to
\* dbInstance and dbInstance is returned
ConcConnect(p) ==
    /\ At(p, "connect")
    /\ cDbInstance' = cCalls[p].db
    /\ cCalls' = [cCalls EXCEPT ![p].pc = "tableNames"]
    /\ UNCHANGED <<connects, cDocuments, cBefore>>
    /\ UNCHANGED <<chunkVars, splitVars, qaVars, searchVars, storeVars, ingestVars>>

\* db.tableNames() at line 95 and line 117, and the test of lines 97 and 103
ConcTableNames(p) ==
    /\ At(p, "tableNames")
    /\ cCalls' = [cCalls EXCEPT
                    ![p].includes = IncludesTable(cDocuments),
                    ![p].pc = IF cCalls[p].op = "addDocuments" THEN "embed"
                              ELSE IF IncludesTable(cDocuments) THEN "openTable"
                              ELSE "thrown"]
    /\ UNCHANGED <<cDbInstance, connects, cDocuments, cBefore>>
    /\ UNCHANGED <<chunkVars, splitVars, qaVars, searchVars, storeVars, ingestVars>>

\* the awaits that leave the shared state alone: openTable (lines 98, 163),
\* embedTexts (line 130), embedText (line 253) and toArray (line 272)
AfterAwait(call) ==
    CASE call.op = "search" /\ call.pc = "openTable" -> "embed"
      [] call.op = "search" /\ call.pc = "embed" -> "toArray"
      [] call.op = "search" /\ call.pc = "toArray" -> "returned"
      [] call.op = "addDocuments" /\ call.pc = "embed" ->
            IF call.includes THEN "openTable" ELSE "createTable"
      [] call.op = "addDocuments" /\ call.pc = "openTable" -> "add"

ConcAwait(p) ==
    /\ p \in DOMAIN cCalls /\ cCalls[p].pc \in {"openTable", "embed", "toArray"}
    /\ cCalls' = [cCalls EXCEPT ![p].pc =
                    IF cCalls[p].pc = "openTable" /\ ~cDocuments.exists THEN "thrown"
                    ELSE AfterAwait(cCalls[p])]
    /\ UNCHANGED <<cDbInstance, connects, cDocuments, cBefore>>
    /\ UNCHANGED <<chunkVars, splitVars, qaVars, searchVars, storeVars, ingestVars>>

\* the rows a call adds
ConcRecords(p) == [k \in 1..cCalls[p].chunks |-> <<p, k>>]

\* line 164
ConcAdd(p) ==
    /\ At(p, "add")
    /\ cDocuments' = AddRows(cDocuments, ConcRecords(p))
    /\ cCalls' = [cCalls EXCEPT ![p].pc = "returned"]
    /\ UNCHANGED <<cDbInstance, connects, cBefore>>
    /\ UNCHANGED <<chunkVars, splitVars, qaVars, searchVars, storeVars, ingestVars>>

\* line 167; the store rejects creating a table it already holds, and the
\* catch of line 169 wraps the rejection
ConcCreateTable(p) ==
    /\ At(p, "createTable")
    /\ IF cDocuments.exists
       THEN /\ cCalls' = [cCalls EXCEPT ![p].pc = "thrown"]
            /\ UNCHANGED cDocuments
       ELSE /\ cDocuments' = Table(ConcRecords(p))
            /\ cCalls' = [cCalls EXCEPT ![p].pc = "returned"]
    /\ UNCHANGED <<cDbInstance, connects, cBefore>>
    /\ UNCHANGED <<chunkVars, splitVars, qaVars, searchVars, storeVars, ingestVars>>

\* ------------------------------------------------------------------ ingestion

MaxFamilyChunks == 2

\* the three try blocks of main, in order
Families == <<"law", "qa", "guideline">>

\* where main goes when the try block of family i is left normally
AfterFamily(i) ==
    IF i < Len(Families) THEN [pc |-> "family", family |-> i + 1]
    ELSE [pc |-> "count", family |-> i]

\* where main goes from the catch block of family i: the catch only logs
\* (lines 74-76, 119-121, 150-152)
AfterCatchRethrows(i) == [pc |-> "aborted", family |-> i]
AfterCatch(i) == AfterFamily(i)

Goto(target) ==
    /\ ingPc' = target.pc
    /\ ingFamily' = target.family
    /\ ingStep' = "fetch"
    /\ ingEntered' = IF target.pc = "family"
                     THEN ingEntered \cup {Families[target.family]} ELSE ingEntered

\* something in the try block of the current family threw
Caught ==
    /\ ingFailed' = ingFailed \cup {Families[ingFamily]}
    /\ Goto(AfterCatch(ingFamily))
    /\ UNCHANGED <<ingChunks, ingSkipped, ingStored, totalChunks, ingRows, count>>

\* lines 33-39: ensureCacheDir and clearTable, outside any try
IngestClearTable ==
    /\ ingPc = "clearTable"
    /\ \/ /\ ingRows' = 0
          /\ Goto([pc |-> "family", family |-> 1])
       \/ /\ ingPc' = "aborted"
          /\ UNCHANGED <<ingFamily, ingStep, ingEntered, ingRows>>
    /\ UNCHANGED <<ingChunks, ingFailed, ingSkipped, ingStored, totalChunks, count>>
    /\ UNCHANGED <<chunkVars, splitVars, qaVars, searchVars, storeVars, concVars>>

\* lines 45, 82, 127: the loader is awaited; Q&A and guidelines are skipped
\* when the loader returned nothing (lines 91 and 136)
IngestFetch ==
    /\ ingPc = "family" /\ ingStep = "fetch"
    /\ \/ /\ ingStep' = IF Families[ingFamily] = "guideline" THEN "chunk" ELSE "cache"
          /\ UNCHANGED <<ingPc, ingFamily, ingChunks, ingEntered, ingFailed, ingSkipped,
                         ingStored, totalChunks, ingRows, count>>
       \/ /\ Families[ingFamily] # "law"
          /\ ingSkipped' = ingSkipped \cup {Families[ingFamily]}
          /\ Goto(AfterFamily(ingFamily))
          /\ UNCHANGED <<ingChunks, ingFailed, ingStored, totalChunks, ingRows, count>>
       \/ Caught
    /\ UNCHANGED <<chunkVars, splitVars, qaVars, searchVars, storeVars, concVars>>

\* lines 49-65 and 98-107: writeFileSync of the local cache
IngestCache ==
    /\ ingPc = "family" /\ ingStep = "cache"
    /\ \/ /\ ingStep' = "chunk"
          /\ UNCHANGED <<ingPc, ingFamily, ingChunks, ingEntered, ingFailed, ingSkipped,
                         ingStored, totalChunks, ingRows, count>>
       \/ Caught
    /\ UNCHANGED <<chunkVars, splitVars, qaVars, searchVars, storeVars, concVars>>

\* lines 68, 110, 143: the family's chunker
IngestChunk ==
    /\ ingPc = "family" /\ ingStep = "chunk"
    /\ \/ /\ \E n \in 0..MaxFamilyChunks : ingChunks' = n
          /\ ingStep' = "store"
          /\ UNCHANGED <<ingPc, ingFamily, ingEntered, ingFailed, ingSkipped,
                         ingStored, totalChunks, ingRows, count>>
       \/ Caught
    /\ UNCHANGED <<chunkVars, splitVars, qaVars, searchVars, storeVars, concVars>>

\* lines 72-73, 114-115, 147-148: addDocuments is awaited, then totalChunks grows
IngestStore ==
    /\ ingPc = "family" /\ ingStep = "store"
    /\ \/ /\ ingRows' = ingRows + ingChunks
          /\ totalChunks' = totalChunks + ingChunks
          /\ ingStored' = ingStored \cup {Families[ingFamily]}
          /\ Goto(AfterFamily(ingFamily))
          /\ UNCHANGED <<ingChunks, ingFailed, ingSkipped, count>>
       \/ Caught
    /\ UNCHANGED <<chunkVars, splitVars, qaVars, searchVars, storeVars, concVars>>

\* lines 155-158: countDocuments never throws; it reports 0 when it fails
IngestCount ==
    /\ ingPc = "count"
    /\ count' \in {ingRows, 0}
    /\ ingPc' = "done"
    /\ UNCHANGED <<ingFamily, ingStep, ingChunks, ingEntered, ingFailed, ingSkipped,
                   ingStored, totalChunks, ingRows>>
    /\ UNCHANGED <<chunkVars, splitVars, qaVars, searchVars, storeVars, concVars>>

\* ---- initial states

NoLaw == [lawId |-> LawId, articles |-> <<>>]

InitLaw ==
    /\ family = "law"
    /\ law \in LawInputs
    /\ chunkBy \in {"article", "paragraph"}
    /\ doc = <<>> /\ opts = <<>>

InitGuideline ==
    /\ family = "guideline"
    /\ doc \in GuidelineDocs
    /\ opts \in GuidelineConfigs
    /\ law = NoLaw /\ chunkBy = "article"

InitChunk ==
    /\ InitLaw \/ InitGuideline
    /\ chunks = <<>> /\ idx = 1 /\ pendingChunk = <<>> /\ result = <<>>
    /\ pc = "start"

IdleChunk ==
    /\ family = "none" /\ law = NoLaw /\ chunkBy = "article"
    /\ doc = <<>> /\ opts = <<>>
    /\ chunks = <<>> /\ idx = 1 /\ pendingChunk = <<>> /\ result = <<>>
    /\ pc = "idle"

InitSplit ==
    /\ sText \in SplitTexts
    /\ sOpts \in SplitOptions
    /\ sStart = 0 /\ sChunks = <<>> /\ sPc = "call"

IdleSplit ==
    /\ sText = Plain(0) /\ sOpts = <<>>
    /\ sStart = 0 /\ sChunks = <<>> /\ sPc = "idle"

InitQa ==
    /\ qaData \in QaInputs
    /\ qaOptions \in [combineRelated : BOOLEAN, maxChunkSize : {2000, 25}]
    /\ itemsByCategory = <<>> /\ qCat = 1 /\ qItem = 1
    /\ currentContent = EmptyContent /\ currentItems = <<>> /\ chunkIndex = 1
    /\ qChunks = <<>> /\ qPc = "start"

IdleQa ==
    /\ qaData = [source |-> "representation", items |-> <<>>]
    /\ qaOptions = [combineRelated |-> FALSE, maxChunkSize |-> 2000]
    /\ itemsByCategory = <<>> /\ qCat = 1 /\ qItem = 1
    /\ currentContent = EmptyContent /\ currentItems = <<>> /\ chunkIndex = 1
    /\ qChunks = <<>> /\ qPc = "idle"

InitSearch ==
    /\ table \in Tables
    /\ msSources \in { <<"law", "guideline", "qa">>, <<"qa", "law">> }
    /\ msLimit \in {1, 3}
    /\ searches = <<>> /\ searchResults = <<>> /\ completion = <<>>
    /\ msState = "start" /\ msOutput = <<>>

IdleSearch ==
    /\ table = <<>> /\ msSources = <<>> /\ msLimit = 3
    /\ searches = <<>> /\ searchResults = <<>> /\ completion = <<>>
    /\ msState = "idle" /\ msOutput = <<>>

InitStore ==
    /\ dbInstance = FALSE
    /\ documents \in InitialTables
    /\ stCall = NoCall /\ stPc = "ready" /\ stIo = <<>> /\ stOutcome = Pending

IdleStore ==
    /\ dbInstance = FALSE /\ documents = NoTable
    /\ stCall = NoCall /\ stPc = "idle" /\ stIo = <<>> /\ stOutcome = Pending

InitIngest ==
    /\ ingPc = "clearTable" /\ ingFamily = 1 /\ ingStep = "fetch" /\ ingChunks = 0
    /\ ingEntered = {} /\ ingFailed = {} /\ ingSkipped = {} /\ ingStored = {}
    /\ totalChunks = 0
    /\ ingRows \in 0..MaxFamilyChunks
    /\ count = -1

IdleIngest ==
    /\ ingPc = "idle" /\ ingFamily = 1 /\ ingStep = "fetch" /\ ingChunks = 0
    /\ ingEntered = {} /\ ingFailed = {} /\ ingSkipped = {} /\ ingStored = {}
    /\ totalChunks = 0 /\ ingRows = 0 /\ count = -1

\* no connection yet; the table is absent or holds one row
InitConc ==
    /\ cDbInstance = 0 /\ connects = 0
    /\ cDocuments \in {NoTable, Table(<<<<0, 1>>>>)}
    /\ cBefore = cDocuments
    /\ cCalls \in [1..MaxCalls -> StoreCalls]

IdleConc ==
    /\ cDbInstance = 0 /\ connects = 0 /\ cDocuments = NoTable /\ cBefore = NoTable
    /\ cCalls = <<>>

\* ---- the chunkers and their merge pass

Init == InitChunk /\ IdleSplit /\ IdleQa /\ IdleSearch /\ IdleStore /\ IdleIngest /\ IdleConc

Next ==
    \/ ChunkLawSplit \/ LawMergeStep \/ LawMergeReturn
    \/ ChunkGuidelineSplit \/ GuidelineMergeStep \/ GuidelineMergeReturn

Spec == Init /\ [][Next]_vars

\* ---- splitWithOverlap on its own

InitSplitOnly == IdleChunk /\ InitSplit /\ IdleQa /\ IdleSearch /\ IdleStore /\ IdleIngest /\ IdleConc

NextSplit == SplitCall \/ SplitIteration

SpecSplit == InitSplitOnly /\ [][NextSplit]_vars

\* ---- chunkQa

InitQaOnly == IdleChunk /\ IdleSplit /\ InitQa /\ IdleSearch /\ IdleStore /\ IdleIngest /\ IdleConc

NextQa ==
    \/ ChunkQaDefault \/ ChunkQaGroup \/ QaCategoryStart
    \/ QaItemStep \/ QaCategoryEnd \/ ChunkQaReturn

SpecQa == InitQaOnly /\ [][NextQa]_vars

\* ---- multiSearch

InitSearchOnly == IdleChunk /\ IdleSplit /\ IdleQa /\ InitSearch /\ IdleStore /\ IdleIngest /\ IdleConc

NextSearch ==
    \/ MultiSearchStart
    \/ \E i \in 1..Len(searches) : SearchFulfil(i) \/ SearchReject(i)
    \/ MultiSearchReturn
    \/ MultiSearchThrow

SpecSearch == InitSearchOnly /\ [][NextSearch]_vars

\* ---- the document store

InitStoreOnly == IdleChunk /\ IdleSplit /\ IdleQa /\ IdleSearch /\ InitStore /\ IdleIngest /\ IdleConc

NextStore ==
    \/ StoreCall \/ StoreResume \/ GetDb \/ TableNames \/ OpenTable \/ Embed \/ Query
    \/ Add \/ CreateTable \/ DropTable \/ CountRows

SpecStore == InitStoreOnly /\ [][NextStore]_vars

\* ---- the ingestion run: main runs on until it returns or rejects

InitIngestOnly ==
    IdleChunk /\ IdleSplit /\ IdleQa /\ IdleSearch /\ IdleStore /\ InitIngest /\ IdleConc

NextIngest ==
    \/ IngestClearTable \/ IngestFetch \/ IngestCache \/ IngestChunk
    \/ IngestStore \/ IngestCount

SpecIngest == InitIngestOnly /\ [][NextIngest]_vars /\ WF_vars(NextIngest)

\* ---- store calls in flight at the same time

InitConcOnly ==
    IdleChunk /\ IdleSplit /\ IdleQa /\ IdleSearch /\ IdleStore /\ IdleIngest /\ InitConc

NextConc ==
    \E p \in 1..MaxCalls :
        \/ ConcGetDb(p)
        \/ ConcConnect(p)
        \/ ConcTableNames(p)
        \/ ConcAwait(p)
        \/ ConcAdd(p)
        \/ ConcCreateTable(p)

SpecConc == InitConcOnly /\ [][NextConc]_vars

\* ------------------------------------------------------------------ claims

Done == pc = "done"

\* the place of an element in a list that holds it once
PositionIn(ids, id) == CHOOSE k \in 1..Len(ids) : ids[k] = id

\* the merge pass refused a merge because of the size limit: a small chunk
\* is followed by a chunk it does not fit with
RefusedAt(i) ==
    /\ i < Len(result)
    /\ IsSmall(result[i].content.len, MinSize)
    /\ result[i].content.len + 2 + result[i + 1].content.len > MaxSize

\* C1 as stated: in the output of the merge pass every chunk but the last
\* has content length >= minSize.
C1_NonFinalAtLeastMin ==
    Done => \A i \in 1..(Len(result) - 1) : result[i].content.len >= MinSize

\* C1 amended: in the output of the merge pass every chunk but the last has
\* content length >= minSize, or joining it to the chunk after it with a
\* blank line would exceed maxSize (the pending chunk was flushed unmerged).
C1_NonFinalAtLeastMinOrUnmergeable ==
    Done => \A i \in 1..(Len(result) - 1) :
              \/ result[i].content.len >= MinSize
              \/ result[i].content.len + 2 + result[i + 1].content.len > MaxSize

C1_Witness ==
    /\ Done
    /\ \E i \in 1..Len(result) : RefusedAt(i)
    /\ \E i \in 1..Len(result) : Len(result[i].content.parts) >= 2

\* C2 as stated: no chunk returned by chunkLaw or chunkGuideline is longer
\* than the merge pass's maxSize.
C2_NoOversizedChunk ==
    Done => \A i \in 1..Len(result) : result[i].content.len <= MaxSize

\* C2 amended: when no chunk handed to the merge pass is longer than maxSize,
\* no chunk returned by chunkLaw or chunkGuideline is longer than maxSize.
C2_NoOversizedChunkFromFittingInput ==
    (Done /\ \A k \in 1..Len(chunks) : chunks[k].content.len <= MaxSize)
        => \A i \in 1..Len(result) : result[i].content.len <= MaxSize

C2_Witness ==
    /\ Done
    /\ \A k \in 1..Len(chunks) : chunks[k].content.len <= MaxSize
    /\ \E i \in 1..Len(result) : RefusedAt(i)

\* the length of the contents of the given pre-merge chunks joined by "\n\n"
JoinedLen(parts) ==
    SumSeq([k \in 1..Len(parts) |-> chunks[parts[k]].content.len]) + 2 * (Len(parts) - 1)

\* C3: the merge pass drops and reorders nothing: the output chunks, the
\* pending chunk and the chunks not yet read hold every input content once, in
\* input order, each output content being its inputs joined by a blank line;
\* when the pass returns nothing is left pending.
C3_MergeKeepsEveryContentInOrder ==
    pc \in {"merge", "done"} =>
        /\ FlatParts(result \o pendingChunk) \o [k \in 1..(Len(chunks) + 1 - idx) |-> idx - 1 + k]
             = [k \in 1..Len(chunks) |-> k]
        /\ \A i \in 1..Len(result) :
             result[i].content.len = JoinedLen(result[i].content.parts)
        /\ Done => pendingChunk = <<>>

C3_Witness ==
    /\ Done
    /\ Len(result) >= 2
    /\ \E i \in 1..Len(result) : Len(result[i].content.parts) >= 2
    /\ IsSmall(result[Len(result)].content.len, MinSize)

\* the law merge pass is about to merge pendingChunk with chunks[idx]
LawMerges ==
    /\ pc = "merge" /\ family = "law" /\ idx <= Len(chunks)
    /\ pendingChunk # <<>>
    /\ pendingChunk[1].content.len + 2 + chunks[idx].content.len <= MAX_CHUNK_SIZE

\* C4: when the law merge pass merges the pending chunk with the next chunk,
\* the merged chunk's articleNumber is the pending one's if both are equal and
\* "<pending>-<next>" otherwise, and its id is "<lawId>-art<articleNumber>";
\* an 80-character chunk of article 5 followed by a 150-character chunk of
\* article 6 yields exactly one chunk, with articleNumber "5-6".
C4_MergedArticleNumber ==
    /\ [][LawMerges =>
            LET p == pendingChunk[1]
                c == chunks[idx]
                m == IF pendingChunk' # <<>> THEN pendingChunk'[1]
                     ELSE result'[Len(result')]
            IN  /\ m.metadata.articleNumber =
                     (IF p.metadata.articleNumber = c.metadata.articleNumber
                      THEN p.metadata.articleNumber
                      ELSE p.metadata.articleNumber \o "-" \o c.metadata.articleNumber)
                /\ m.id = law.lawId \o "-art" \o m.metadata.articleNumber
                /\ m.content.parts = p.content.parts \o c.content.parts]_vars
    /\ [](( /\ Done /\ family = "law" /\ Len(chunks) = 2
            /\ chunks[1].content.len = 80 /\ chunks[1].metadata.articleNumber = "5"
            /\ chunks[2].content.len = 150 /\ chunks[2].metadata.articleNumber = "6" )
          => /\ Len(result) = 1
             /\ result[1].metadata.articleNumber = "5-6"
             /\ result[1].content.len = 232)

C4_Witness ==
    /\ Done /\ family = "law" /\ Len(chunks) = 2
    /\ chunks[1].content.len = 80 /\ chunks[1].metadata.articleNumber = "5"
    /\ chunks[2].content.len = 150 /\ chunks[2].metadata.articleNumber = "6"
    /\ Len(result) = 1

\* C5 as stated: no two chunks of one chunker's output share an id (the law's
\* article numbers and the document's filename being distinct by construction).
C5_UniqueIds ==
    Done => \A i, j \in 1..Len(result) : i # j => result[i].id # result[j].id

\* C8: the i-th chunk (from 0) returned by chunkGuideline has chunkIndex i
\* and id "<filename>-chunk<i>".
C8_GuidelineRenumbered ==
    (Done /\ family = "guideline") =>
        \A i \in 1..Len(result) :
            /\ result[i].metadata.chunkIndex = i - 1
            /\ result[i].id = opts.filename \o <<"-chunk", ToString(i - 1)>>

C8_Witness ==
    /\ Done /\ family = "guideline"
    /\ Len(result) >= 2
    /\ \E i \in 1..Len(result) : result[i].content.parts[Len(result[i].content.parts)] # i
    /\ Len(opts.filename) > 1

\* ---- splitWithOverlap

\* position p of the text lies in an emitted (trimmed) window
Covered(p) == \E k \in 1..Len(sChunks) : sChunks[k].tstart <= p /\ p < sChunks[k].tend

\* the windows chain: the first starts at 0, each next one starts chunkOverlap
\* characters before the end of the previous one (clamped at 0), and the last
\* one ends at the end of the text
WindowsChain ==
    /\ sChunks # <<>>
    /\ sChunks[1].start = 0
    /\ \A k \in 1..(Len(sChunks) - 1) :
         /\ sChunks[k + 1].start = Max(sChunks[k].end - sOpts.chunkOverlap, 0)
         /\ sChunks[k + 1].start <= sChunks[k].end
    /\ sChunks[Len(sChunks)].end >= sText.len

\* C6 as stated: the split terminates whenever 0 <= chunkOverlap < chunkSize.
\* An iteration is a function of `start` alone, so the loop terminates exactly
\* when no iteration begins at a start an earlier iteration began at.
C6_SplitNeverRevisitsAStart ==
    sPc = "loop" => \A k \in 1..Len(sChunks) : sChunks[k].start # sStart

\* C7 as stated: the windows chain and every character position of the text
\* lies in at least one emitted window.
C7_EveryPositionInAWindow ==
    sPc = "done" => /\ WindowsChain
                    /\ \A p \in 0..(sText.len - 1) : Covered(p)

\* C7 amended: the windows chain, every position lies in the range a window
\* was cut from, and every position that holds no whitespace lies in at least
\* one emitted window (a window is trimmed, so whitespace at its edge is lost).
C7_EveryNonBlankPositionInAWindow ==
    sPc = "done" =>
        /\ WindowsChain
        /\ \A p \in 0..(sText.len - 1) :
             /\ \E k \in 1..Len(sChunks) : sChunks[k].start <= p /\ p < sChunks[k].end
             /\ p \notin sText.spaces => Covered(p)

C7_Witness ==
    /\ sPc = "done"
    /\ Len(sChunks) >= 2
    /\ sOpts.chunkOverlap > 0
    /\ \E p \in sText.spaces : ~Covered(p)
    /\ \E k \in 1..Len(sChunks) : sChunks[k].end - sChunks[k].start < sOpts.chunkSize
                                  /\ sChunks[k].end < sText.len

\* ---- chunkQa

\* C9 as stated: in combine mode every chunk that absorbed two or more items
\* has content length <= maxChunkSize.
C9_CombinedChunkWithinMax ==
    qaOptions.combineRelated =>
        \A i \in 1..Len(qChunks) :
            Len(qChunks[i].content.parts) >= 2
                => qChunks[i].content.len <= qaOptions.maxChunkSize

\* ---- multiSearch

\* C10: the list multiSearch returns is non-decreasing in score, whatever the
\* requested sources and the order in which the searches completed.
C10_MultiSearchSorted ==
    msState = "returned" =>
        \A i, j \in 1..Len(msOutput) : i < j => msOutput[i].score <= msOutput[j].score

\* the searches completed in another order than they were started, and their
\* results put together in the order of sources are not sorted
C10_Witness ==
    /\ msState = "returned"
    /\ Len(msOutput) >= 2
    /\ completion # [i \in 1..Len(msSources) |-> i]
    /\ \E i \in 1..(Len(msOutput) - 1) :
         Flat(searchResults)[i].score > Flat(searchResults)[i + 1].score

\* C21 (as stated): multiSearch starts one search per requested source and
\* neither returns nor throws while one of those searches is still pending,
\* also when one of them fails.
C21_SettlesAfterEverySearch ==
    /\ msState \in {"awaiting", "returned", "thrown"} => Len(searches) = Len(msSources)
    /\ msState \in {"returned", "thrown"} =>
         \A i \in 1..Len(searches) : searches[i] # "pending"

\* C21 (amended): multiSearch starts one search per requested source; it
\* returns only when every one of those searches has fulfilled, and it throws
\* only when one of them has failed, without waiting for the others.
C21_ReturnsAfterEverySearch ==
    /\ msState \in {"awaiting", "returned", "thrown"} => Len(searches) = Len(msSources)
    /\ msState = "returned" => \A i \in 1..Len(searches) : searches[i] = "fulfilled"
    /\ msState = "thrown" => \E i \in 1..Len(searches) : searches[i] = "rejected"

\* multiSearch has thrown on the first failure while one search had fulfilled
\* and another was still pending
C21_Witness ==
    /\ msState = "thrown"
    /\ Len(completion) = 2
    /\ searches[completion[1]] = "fulfilled" /\ searches[completion[2]] = "rejected"
    /\ \E i \in 1..Len(searches) : searches[i] = "pending"

\* what the searches resolve to, put together in the order of sources
ResultsInSourceOrder ==
    Flat([i \in 1..Len(msSources) |-> VectorSearch(table, msSources[i], msLimit).value])

\* C29: the list multiSearch returns depends on the per-source results only,
\* not on the order in which the searches completed: it holds every result
\* once, in ascending score, results of equal score in the order of their
\* sources in the sources argument and then of their place in their source's
\* result.
C29_MultiSearchDeterministic ==
    msState = "returned" =>
        LET flat == ResultsInSourceOrder IN
        /\ Len(msOutput) = Len(flat)
        /\ \A k \in 1..Len(flat) : \E o \in 1..Len(msOutput) : msOutput[o] = flat[k]
        /\ \A i, j \in 1..Len(msOutput) :
             i < j => \/ msOutput[i].score < msOutput[j].score
                      \/ /\ msOutput[i].score = msOutput[j].score
                         /\ PositionIn(flat, msOutput[i]) < PositionIn(flat, msOutput[j])

\* the searches completed in another order than they were started and the
\* sources returned results of equal score
C29_Witness ==
    /\ msState = "returned"
    /\ completion[1] = Len(msSources)
    /\ \E i, j \in 1..Len(msOutput) :
         /\ i < j
         /\ msOutput[i].score = msOutput[j].score
         /\ msOutput[i].source # msOutput[j].source

\* ---- the document store

Settled(op) == stPc = "settled" /\ stCall.op = op

NoFault == \A k \in 1..Len(stIo) : ~stIo[k].fault

Performed(op) == \E k \in 1..Len(stIo) : stIo[k].op = op

\* what countDocuments returns when nothing fails: the row count, 0 without a table
CountOf(tbl) == IF tbl.exists THEN Len(tbl.rows) ELSE 0

\* C11: a search with a source s of the allow-list returns at most limit
\* results, each of source s, whatever sources the table's rows have.
C11_SearchReturnsOnlyTheSource ==
    (/\ Settled("search") /\ ~stOutcome.thrown
     /\ stCall.source # <<>> /\ stCall.source[1] \in VALID_SOURCES)
        => /\ Len(stOutcome.value.results) <= stCall.limit
           /\ \A k \in 1..Len(stOutcome.value.results) :
                stOutcome.value.results[k].source = stCall.source[1]

\* a search by source returned a result although a row of another source is
\* at least as near to the query
C11_Witness ==
    /\ Settled("search") /\ ~stOutcome.thrown
    /\ stCall.source # <<>> /\ stCall.source[1] \in VALID_SOURCES
    /\ Len(stOutcome.value.results) = stCall.limit
    /\ \E k \in 1..Len(documents.rows) :
         /\ documents.rows[k].source.val # stCall.source[1]
         /\ documents.rows[k].distance.val <= stOutcome.value.results[1].score

\* C12: every predicate a search hands to the table is source = '<v>' with v
\* in the allow-list {law, guideline, qa, violation}.
C12_PredicatesUseValidatedSources ==
    \A k \in 1..Len(stIo) :
        stIo[k].predicate # ""
            => \E v \in {"law", "guideline", "qa", "violation"} :
                 stIo[k].predicate = "source = '" \o v \o "'"

\* a search handed a predicate to the table
C12_Witness ==
    /\ Settled("search")
    /\ \E k \in 1..Len(stIo) : stIo[k].op = "toArray" /\ stIo[k].predicate # ""

\* C13 as stated: a search whose source string is outside the allow-list (the
\* empty string included) performs no I/O and ends with an error.
C13_InvalidSourceRejectedBeforeIo ==
    (/\ stCall.op = "search"
     /\ \E k \in 1..Len(stCall.query) : stCall.query[k] # " "
     /\ stCall.source # <<>>
     /\ stCall.source[1] \notin {"law", "guideline", "qa", "violation"})
        => /\ stIo = <<>>
           /\ stPc = "settled" => stOutcome.thrown

\* C14: a search with an empty or whitespace-only query ends at once with a
\* VectorStoreError of operation "search", having performed no I/O.
C14_EmptyQueryRejected ==
    (/\ stCall.op = "search"
     /\ \A k \in 1..Len(stCall.query) : stCall.query[k] = " ")
        => /\ stPc = "settled"
           /\ stOutcome.thrown
           /\ stOutcome.name = "VectorStoreError" /\ stOutcome.operation = "search"
           /\ stIo = <<>>
           /\ documents = stCall.before

\* a search with a whitespace-only query was rejected
C14_Witness ==
    /\ Settled("search")
    /\ stCall.query = <<" ", " ">>
    /\ stOutcome.thrown

\* C15: an addDocuments call that returns has raised the count by the number
\* of chunks passed; with no chunks it performs no I/O and leaves the table
\* as it was.
C15_AddDocumentsRaisesCount ==
    (Settled("addDocuments") /\ ~stOutcome.thrown)
        => /\ CountOf(documents) = CountOf(stCall.before) + Len(stCall.chunks)
           /\ stCall.chunks = <<>> => stIo = <<>> /\ documents = stCall.before

\* chunks were appended to a table that held rows already
C15_Witness ==
    /\ Settled("addDocuments") /\ ~stOutcome.thrown
    /\ stCall.before.exists /\ Len(stCall.before.rows) >= 1
    /\ Len(stCall.chunks) >= 1
    /\ stCall.previous = "addDocuments"

\* the rows the call has written for its chunks, decoded
DecodedRow(i) ==
    parseSearchResult(documents.rows[Len(stCall.before.rows) + i])

Stored == (Settled("addDocuments") /\ ~stOutcome.thrown /\ stCall.chunks # <<>>)

\* C16 as stated: the row written for a chunk decodes to the chunk's content
\* and source and to a metadata object equal to the chunk's.
C16_RoundTripMetadataEqual ==
    Stored =>
        \A i \in 1..Len(stCall.chunks) :
            /\ ~DecodedRow(i).thrown
            /\ DecodedRow(i).value.content = stCall.chunks[i].content
            /\ DecodedRow(i).value.metadata = stCall.chunks[i].metadata

Defined(meta) == SelectSeq(meta, LAMBDA p : p[2] # "undefined")

\* C16 amended: the row written for a chunk decodes to the chunk's content
\* and source and to a metadata object that has exactly the chunk's
\* properties whose value is not undefined, with their types and values in
\* the same order.
C16_RoundTripDefinedMetadataEqual ==
    Stored =>
        \A i \in 1..Len(stCall.chunks) :
            /\ ~DecodedRow(i).thrown
            /\ DecodedRow(i).value.content = stCall.chunks[i].content
            /\ \E k \in 1..Len(stCall.chunks[i].metadata) :
                 /\ stCall.chunks[i].metadata[k][1] = "source"
                 /\ stCall.chunks[i].metadata[k][3] = DecodedRow(i).value.source
            /\ DecodedRow(i).value.metadata = Defined(stCall.chunks[i].metadata)

\* a chunk with a numeric property and a chunk with an undefined property
\* were stored
C16_Witness ==
    /\ Stored
    /\ \E i \in 1..Len(stCall.chunks) :
         \E k \in 1..Len(stCall.chunks[i].metadata) :
            stCall.chunks[i].metadata[k][2] = "undefined"
    /\ \E r \in 1..Len(documents.rows) :
         \E k \in 1..Len(documents.rows[r].metadata.val.props) :
            documents.rows[r].metadata.val.props[k][2] = "number"

\* C17: a clearTable call on which the store does not fail returns, whether
\* or not the table exists; it leaves no table, so that a second call in a
\* row changes nothing, and countDocuments then reports 0.
C17_ClearTableIdempotent ==
    /\ (Settled("countDocuments") /\ ~stCall.before.exists)
          => ~stOutcome.thrown /\ stOutcome.value.count = 0
    /\ (Settled("clearTable") /\ NoFault)
        => /\ ~stOutcome.thrown
           /\ ~documents.exists /\ documents.rows = <<>>
           /\ CountOf(documents) = 0
           /\ ~stCall.before.exists => documents = stCall.before
           /\ ~stCall.before.exists => ~Performed("dropTable")

\* a second clearTable in a row has returned
C17_Witness ==
    /\ Settled("clearTable") /\ NoFault
    /\ stCall.previous = "clearTable"
    /\ ~stCall.before.exists
    /\ ~stOutcome.thrown

\* C18 as stated: when the provider or the store fails inside addDocuments or
\* search, the caller gets a VectorStoreError that names the failing
\* operation and carries the cause.
C18_FailuresReachCallerWrapped ==
    (/\ stPc = "settled" /\ stCall.op \in {"addDocuments", "search"}
     /\ ~NoFault)
        => /\ stOutcome.thrown
           /\ stOutcome.name = "VectorStoreError"
           /\ stOutcome.operation # ""
           /\ stOutcome.cause

\* a row that fails one of the checks: a required column of another type, a
\* source outside the allow-list, or metadata that is not JSON
Malformed(row) ==
    \/ row.id.type # "string" \/ row.content.type # "string"
    \/ row.source.type # "string" \/ row.metadata.type # "string"
    \/ row.distance.type # "number"
    \/ row.source.val \notin {"law", "guideline", "qa", "violation"}
    \/ ~row.metadata.val.parseable

\* the rows the table handed back to the search that has settled
RowsReturned ==
    ToArray(documents.rows, stIo[Len(stIo)].predicate, stCall.limit)

\* C19: when the table hands back a malformed row the search throws and
\* returns nothing; the results of a search that returns are the rows handed
\* back, one for one, each with a source of the allow-list and the row's
\* distance as its score.
C19_NoMalformedRowCoerced ==
    (Settled("search") /\ Performed("toArray") /\ NoFault)
        => /\ (\E k \in 1..Len(RowsReturned) : Malformed(RowsReturned[k]))
                => stOutcome.thrown
           /\ ~stOutcome.thrown
                => /\ Len(stOutcome.value.results) = Len(RowsReturned)
                   /\ \A k \in 1..Len(RowsReturned) :
                        /\ stOutcome.value.results[k].source
                             \in {"law", "guideline", "qa", "violation"}
                        /\ stOutcome.value.results[k].score = RowsReturned[k].distance.val

\* the table handed back a well-formed row and a malformed one, and the
\* search threw
C19_Witness ==
    /\ Settled("search") /\ Performed("toArray") /\ NoFault
    /\ Len(RowsReturned) = 2
    /\ ~Malformed(RowsReturned[1]) /\ Malformed(RowsReturned[2])
    /\ stOutcome.thrown

\* ---- ingestion

\* C20: a failure inside one family's fetching, chunking or storing does not
\* end the run: the run goes on to the final countDocuments, every family's
\* block is entered, and every family that did not fail itself was stored
\* (or had nothing to store).
C20_FamilyFailureDoesNotAbort ==
    /\ [](ingFailed # {} => <>(ingPc = "done"))
    /\ [](ingPc = "done" =>
            /\ count >= 0
            /\ \A i \in 1..Len(Families) :
                 /\ Families[i] \in ingEntered
                 /\ Families[i] \notin ingFailed
                      => Families[i] \in (ingStored \cup ingSkipped))

\* the law family failed, the other two were stored and the run reached the
\* final count
C20_Witness ==
    /\ ingPc = "done"
    /\ ingFailed = {"law"}
    /\ ingStored = {"qa", "guideline"}
    /\ count = totalChunks /\ count > 0

\* ---- store calls in flight at the same time

\* C22: for every interleaving of store calls, lancedb.connect is invoked at
\* most once and every call that has a connection has the same one.
C22_ConnectedAtMostOnce ==
    /\ connects <= 1
    /\ \A p, q \in DOMAIN cCalls :
         cCalls[p].db # 0 /\ cCalls[q].db # 0 => cCalls[p].db = cCalls[q].db

\* C23: when addDocuments calls run at the same time, with the table present
\* or absent when they start, every call returns and the table has grown by
\* the sum of their chunk counts.
C23_ConcurrentAddsAllPersist ==
    (/\ cCalls # <<>>
     /\ \A p \in DOMAIN cCalls :
          cCalls[p].op = "addDocuments" /\ cCalls[p].pc \in {"returned", "thrown"})
    => /\ \A p \in DOMAIN cCalls : cCalls[p].pc = "returned"
       /\ Len(cDocuments.rows) =
            Len(cBefore.rows) + SumSeq([p \in DOMAIN cCalls |-> cCalls[p].chunks])

\* ---- chunkByParagraph

\* the chunks handed to the merge pass that come from article i
ChunksOfArticle(i) ==
    SelectSeq(chunks, LAMBDA c : c.metadata.articleNumber = law.articles[i].articleNumber)

SplitByParagraph == family = "law" /\ chunkBy = "paragraph" /\ pc = "merge" /\ idx = 1

GroupOf(item) == IF item.category # <<>> THEN item.category ELSE DefaultCategory

\* the ids of the items the chunks absorbed, chunk after chunk
Absorbed == FlatParts(qChunks)

\* the chunks of the same category that come before chunk c
EarlierOfCategory(c) ==
    { b \in 1..(c - 1) : qChunks[b].metadata.category = qChunks[c].metadata.category }

\* C25: in combine mode every item is absorbed by exactly one chunk, under
\* its category (the default one for an empty category); items of a category
\* keep their input order; originalId is the comma-joined ids of the absorbed
\* items in that order; the chunks of a category are numbered 1, 2, 3, ...
C25_CombineAbsorbsEveryItemOnce ==
    (qPc = "done" /\ qaOptions.combineRelated) =>
        /\ \A i \in 1..Len(qaData.items) :
             /\ Cardinality({ k \in 1..Len(Absorbed) : Absorbed[k] = qaData.items[i].id }) = 1
             /\ \E c \in 1..Len(qChunks) :
                  /\ \E k \in 1..Len(qChunks[c].content.parts) :
                       qChunks[c].content.parts[k] = qaData.items[i].id
                  /\ qChunks[c].metadata.category = GroupOf(qaData.items[i])
        /\ Len(Absorbed) = Len(qaData.items)
        /\ \A i, j \in 1..Len(qaData.items) :
             (i < j /\ GroupOf(qaData.items[i]) = GroupOf(qaData.items[j]))
                => PositionIn(Absorbed, qaData.items[i].id)
                     < PositionIn(Absorbed, qaData.items[j].id)
        /\ \A c \in 1..Len(qChunks) :
             LET parts == qChunks[c].content.parts
                 originalId == qChunks[c].metadata.originalId
             IN  /\ parts # <<>>
                 /\ Len(originalId) = 2 * Len(parts) - 1
                 /\ \A k \in 1..Len(parts) : originalId[2 * k - 1] = parts[k]
                 /\ \A k \in 1..(Len(parts) - 1) : originalId[2 * k] = ","
                 /\ qChunks[c].id[Len(qChunks[c].id)]
                      = ToString(Cardinality(EarlierOfCategory(c)) + 1)

\* items without a category, the second and third absorbed by the second
\* chunk of the default category
C25_Witness ==
    /\ qPc = "done" /\ qaOptions.combineRelated
    /\ \E c \in 1..Len(qChunks) :
         /\ Len(qChunks[c].content.parts) >= 2
         /\ EarlierOfCategory(c) # {}
         /\ qChunks[c].metadata.category = DefaultCategory
    /\ \E i \in 1..Len(qaData.items) : qaData.items[i].category = <<>>

\* ---- the size of the windows of splitWithOverlap

\* C26: every window splitWithOverlap emits has at most chunkSize characters,
\* wherever the full stops of the text are.
C26_WindowWithinChunkSize ==
    sPc \in {"loop", "done"} =>
        \A k \in 1..Len(sChunks) : WindowLen(sChunks[k]) <= sOpts.chunkSize

\* ---- the merge pass and the size limit

\* C27: a returned chunk longer than maxSize is one chunk handed to the merge
\* pass, passed through as it was; a chunk concatenated from two or more
\* chunks is at most maxSize long.
C27_MergeCreatesNoOversizedChunk ==
    Done =>
        \A i \in 1..Len(result) :
            /\ Len(result[i].content.parts) >= 2 => result[i].content.len <= MaxSize
            /\ result[i].content.len > MaxSize =>
                 /\ Len(result[i].content.parts) = 1
                 /\ result[i].content = chunks[result[i].content.parts[1]].content

\* an oversized chunk was passed through next to a chunk the pass merged
C27_Witness ==
    /\ Done
    /\ \E i, j \in 1..Len(result) :
         /\ result[i].content.len > MaxSize
         /\ Len(result[j].content.parts) >= 2
         /\ result[j].content.len = JoinedLen(result[j].content.parts)

\* ---- a failed embedding inside addDocuments

EmbeddingFailed ==
    \E k \in 1..Len(stIo) : stIo[k].op = "embedTexts" /\ stIo[k].fault

\* C28: when embedTexts fails inside addDocuments the call throws and the
\* persisted table is as the call found it: not created, no row appended,
\* nothing opened or written; so countDocuments reports what it did before.
C28_FailedEmbeddingLeavesTable ==
    /\ (Settled("addDocuments") /\ EmbeddingFailed)
        => /\ stOutcome.thrown
           /\ documents = stCall.before
           /\ CountOf(documents) = CountOf(stCall.before)
           /\ ~Performed("openTable") /\ ~Performed("add") /\ ~Performed("createTable")
    /\ (Settled("countDocuments") /\ NoFault)
        => ~stOutcome.thrown /\ stOutcome.value.count = CountOf(stCall.before)

\* the embedding failed for chunks meant for a table that was absent, after
\* an addDocuments
C28_Witness ==
    /\ Settled("addDocuments") /\ EmbeddingFailed
    /\ stCall.chunks # <<>>
    /\ stCall.previous = "addDocuments"
    /\ stOutcome.thrown /\ stOutcome.operation = "embedTexts"

\* ---- chunkGuideline and the section headings

GuidelineDone == Done /\ family = "guideline"

Headings == { h \in 1..Len(doc) : doc[h].heading }

\* the lines between heading h and the next heading
BodyOf(h) == { j \in (h + 1)..Len(doc) : \A m \in (h + 1)..j : ~doc[m].heading }

\* the body of heading h has a character that is not whitespace
HasText(h) == \E j \in BodyOf(h) : doc[j].text.len > Cardinality(doc[j].text.spaces)

\* the content of the k-th chunk handed to the merge pass starts with `title`
StartsWith(k, title) == chunks[k].metadata.sectionTitle = title

\* C30 (as stated): every heading line of the text is at the start of the
\* content of at least one returned chunk.  (The headings of the documents
\* read alike, so one chunk starting with the heading serves them all.)
C30_NoHeadingLost ==
    GuidelineDone =>
        \A h \in Headings :
            \E i \in 1..Len(result) : StartsWith(result[i].content.parts[1], doc[h].title)

\* C30 (amended): every heading whose body has text is in the content of a
\* returned chunk, at the start of one of the chunks merged into it; there
\* are at least as many such chunks as such headings; when no heading has a
\* body with text, no chunk carries a heading.
C30_NoHeadingWithTextLost ==
    GuidelineDone =>
        LET titled == { k \in 1..Len(chunks) : ~StartsWith(k, 0) }
            withText == { h \in Headings : HasText(h) }
        IN  /\ \A h \in withText :
                 \E i \in 1..Len(result) : \E k \in 1..Len(result[i].content.parts) :
                     StartsWith(result[i].content.parts[k], doc[h].title)
            /\ Cardinality(withText) <= Cardinality(titled)
            /\ withText = {} => titled = {}

\* the chunk of a heading with text was appended to the chunk before it, so
\* the heading is inside the returned chunk's content and not at its start
C30_Witness ==
    /\ GuidelineDone
    /\ \E h \in Headings : HasText(h)
    /\ Len(result) = 1
    /\ Len(result[1].content.parts) = 2
    /\ StartsWith(result[1].content.parts[1], 0)
    /\ ~StartsWith(result[1].content.parts[2], 0)

====
